---- MODULE Spec2Model ----
(***************************************************************************)
(* A model of langgraph-demo: the Anthropic event-stream reader            *)
(* (generateWithAnthropic, src/src/mcp/tools.ts) and the two-node          *)
(* conversation graph with its approval gate (chat / tools /               *)
(* shouldContinue, src/unnamed/part_000).                                  *)
(*                                                                         *)
(* Wire text is a sequence of atoms: "\n" is one line terminator, every    *)
(* other atom is a run of characters that holds no line terminator         *)
(* ("event:", "data:", " ", an event name, a payload).  Fragments cut the  *)
(* wire text between atoms.  Strings the program builds by += (text,       *)
(* reasoning, a tool call's argument buffer) are TLA+ strings.             *)
(***************************************************************************)
EXTENDS Naturals, Integers, Sequences, FiniteSets, TLC

VARIABLES
    \* ---- generateWithAnthropic (one provider call) ----
    text,             \* the whole event-stream text the provider sends
    pos,              \* how many atoms of it reader.read() has delivered
    buffer,           \* let buffer
    textContent,      \* let textContent
    reasoningContent, \* let reasoningContent
    toolCallsMap,     \* const toolCallsMap: index -> ToolCallState
    emitted,          \* what writer(...) was called with, in order
    frames,           \* the frames that reached the classification, in order
    writer,           \* whether getWriter(config) gave a writer
    messageId,        \* const messageId
    gen,              \* "reading" | "returned" | "failed"
    result,           \* the AIMessage returned, or NoMessage
    failure,          \* the message of the Error thrown, or ""
    \* ---- the conversation graph (chat, tools, shouldContinue) ----
    messages,         \* state.messages, the history
    node,             \* where the engine is: "chat" | "tools" | "interrupted" | "end" | "failed"
    ti,               \* tools(): the position in toolCalls of the for loop
    toolMessages,     \* tools(): const toolMessages
    icount,           \* how many interrupt() calls this run of tools() has made
    resumes,          \* the resume values the engine holds for the suspended task
    request,          \* the approval request surfaced by the pending suspension
    \* ---- what happened in the current act phase (history variables) ----
    batch,            \* the tool calls of the assistant message being acted on
    dispatched,       \* the executeMCPTool calls made, in order, each with the run
                      \* of tools() that made it and what it gave
    gateLog,          \* the interrupt() calls made and what each gave
    lastReturn,       \* what the act step returned
    modelCalls,       \* how many times chat called the model provider
    \* ---- the tool-server clients (module state and the calls under way) ----
    mcpConfig,        \* what mcp-service.json gives when it is read
    mcpClients,       \* let mcpClients, the server name of each entry in order
    isInitialized,    \* let isInitialized
    mcpCalls,         \* each caller's call: the function, where it is, the
                      \* connects it awaits and what getMCPTools returned
    connects          \* how many times client.connect was called, per server

graphVars == <<messages, node, ti, toolMessages, icount, resumes, request, batch,
               dispatched, gateLog, lastReturn, modelCalls>>

streamVars == <<text, pos, buffer, textContent, reasoningContent, toolCallsMap,
                emitted, frames, writer, messageId, gen, result, failure>>

clientVars == <<mcpConfig, mcpClients, isInitialized, mcpCalls, connects>>

vars == <<streamVars, graphVars, clientVars>>

-----------------------------------------------------------------------------
(* Bounds *)

MaxTextFrames == 3
MaxToolFrames == 4
MaxCalls == 2
MaxModelCalls == 2
MaxChunkFrames == 2
MaxToolInterrupts == 1
MaxCallers == 3

-----------------------------------------------------------------------------
(* Wire atoms and small string helpers *)

NL == "\n"
SP == " "

\* s.slice(from) with a 0-based from, as a sequence of atoms
SliceFrom(s, from) == SubSeq(s, from + 1, Len(s))

\* s.slice(0, to) with a 0-based exclusive end
SliceTo(s, to) == SubSeq(s, 1, to)

\* buffer.indexOf("\n\n"): the 0-based index of the first blank-line
\* terminator, -1 when there is none
IndexOfBoundary(s) ==
    LET hits == {i \in 1..(Len(s) - 1) : s[i] = NL /\ s[i + 1] = NL}
    IN  IF hits = {} THEN -1
        ELSE (CHOOSE i \in hits : \A j \in hits : i <= j) - 1

RECURSIVE SplitLines(_)
\* raw.split("\n")
SplitLines(s) ==
    LET hits == {i \in 1..Len(s) : s[i] = NL}
    IN  IF hits = {} THEN <<s>>
        ELSE LET i == CHOOSE k \in hits : \A j \in hits : k <= j
             IN  <<SubSeq(s, 1, i - 1)>> \o SplitLines(SubSeq(s, i + 1, Len(s)))

RECURSIVE TrimLeft(_)
TrimLeft(s) == IF s /= <<>> /\ Head(s) = SP THEN TrimLeft(Tail(s)) ELSE s

RECURSIVE TrimRight(_)
TrimRight(s) ==
    IF s /= <<>> /\ s[Len(s)] = SP THEN TrimRight(SubSeq(s, 1, Len(s) - 1)) ELSE s

\* String.prototype.trim over the atoms of one line
Trim(s) == TrimRight(TrimLeft(s))

\* line.startsWith(prefix), prefix being one atom
StartsWith(line, prefix) == line /= <<>> /\ Head(line) = prefix

RECURSIVE JoinLines(_)
\* dataLines.join("\n")
JoinLines(ls) ==
    IF ls = <<>> THEN <<>>
    ELSE IF Len(ls) = 1 THEN ls[1]
    ELSE ls[1] \o <<NL>> \o JoinLines(Tail(ls))

-----------------------------------------------------------------------------
(* parseEventPayload *)

NoFrame == [ok |-> FALSE, event |-> <<>>, data |-> <<>>]

RECURSIVE ScanLines(_, _, _)
\* the for loop of parseEventPayload: the last event: line wins, the data:
\* lines are collected in order
ScanLines(lines, event, dataLines) ==
    IF lines = <<>> THEN [event |-> event, dataLines |-> dataLines]
    ELSE LET line == Head(lines)
         IN  IF StartsWith(line, "event:")
             THEN ScanLines(Tail(lines), Trim(Tail(line)), dataLines)
             ELSE IF StartsWith(line, "data:")
             THEN ScanLines(Tail(lines), event, Append(dataLines, Trim(Tail(line))))
             ELSE ScanLines(Tail(lines), event, dataLines)

parseEventPayload(raw) ==
    LET scan == ScanLines(SplitLines(raw), <<"message">>, <<>>)
        data == JoinLines(scan.dataLines)
    IN  IF data = <<>> THEN NoFrame
        ELSE [ok |-> TRUE, event |-> scan.event, data |-> data]

-----------------------------------------------------------------------------
(* JSON payloads of the frames.  A payload atom stands for one JSON text;   *)
(* Payload gives what JSON.parse makes of it, every field the reader looks  *)
(* at being present ("" for a string field the JSON text does not carry).   *)

NoInput == [kind |-> "absent", keys |-> 0, json |-> ""]
EmptyObjectInput == [kind |-> "object", keys |-> 0, json |-> "{}"]

EmptyBlock ==
    [type |-> "", text |-> "", thinking |-> "", id |-> "", name |-> "",
     input |-> NoInput]

EmptyDelta == [type |-> "", text |-> "", thinking |-> "", partial_json |-> ""]

EmptyPayload ==
    [index |-> 0, content_block |-> EmptyBlock, delta |-> EmptyDelta,
     error_message |-> "", message |-> ""]

TextDelta(i, t) ==
    [EmptyPayload EXCEPT !.index = i,
                         !.delta = [EmptyDelta EXCEPT !.type = "text_delta", !.text = t]]

ToolUseStart(i, id, name, input) ==
    [EmptyPayload EXCEPT !.index = i,
                         !.content_block = [EmptyBlock EXCEPT !.type = "tool_use",
                                                              !.id = id,
                                                              !.name = name,
                                                              !.input = input]]

TextBlockStart(i, t) ==
    [EmptyPayload EXCEPT !.index = i,
                         !.content_block = [EmptyBlock EXCEPT !.type = "text",
                                                              !.text = t]]

ThinkingBlockStart(i, t) ==
    [EmptyPayload EXCEPT !.index = i,
                         !.content_block = [EmptyBlock EXCEPT !.type = "thinking",
                                                              !.thinking = t]]

ThinkingDelta(i, t) ==
    [EmptyPayload EXCEPT !.index = i,
                         !.delta = [EmptyDelta EXCEPT !.type = "thinking_delta",
                                                      !.thinking = t]]

\* a redacted_thinking_delta carries its fragment in the text field
RedactedThinkingDelta(i, t) ==
    [EmptyPayload EXCEPT !.index = i,
                         !.delta = [EmptyDelta EXCEPT !.type = "redacted_thinking_delta",
                                                      !.text = t]]

InputJsonDelta(i, pj) ==
    [EmptyPayload EXCEPT !.index = i,
                         !.delta = [EmptyDelta EXCEPT !.type = "input_json_delta",
                                                      !.partial_json = pj]]

\* the partial_json fragments the provider sends
OpenA1 == "{\"a\":1"
CloseBrace == "}"
Seven == "7"
ArrayOfOne == "[1]"

\* payload atom -> its parsed JSON value
Payload(atom) ==
    CASE atom = "J_text_Hel" -> TextDelta(0, "Hel")
      [] atom = "J_text_lo" -> TextDelta(0, "lo")
      [] atom = "J_start_0" -> ToolUseStart(0, "t0", "x__y", EmptyObjectInput)
      [] atom = "J_start_1" -> ToolUseStart(1, "t1", "x__z", EmptyObjectInput)
      [] atom = "J_args_0_open" -> InputJsonDelta(0, OpenA1)
      [] atom = "J_args_0_close" -> InputJsonDelta(0, CloseBrace)
      [] atom = "J_args_1_open" -> InputJsonDelta(1, OpenA1)
      [] atom = "J_args_1_close" -> InputJsonDelta(1, CloseBrace)
      [] atom = "J_error_boom" -> [EmptyPayload EXCEPT !.error_message = "boom"]
      [] atom = "J_block_text_Hi" -> TextBlockStart(0, "Hi")
      [] atom = "J_block_think_Hm" -> ThinkingBlockStart(0, "Hm")
      [] atom = "J_think_mm" -> ThinkingDelta(0, "mm")
      [] atom = "J_redacted_xx" -> RedactedThinkingDelta(0, "xx")
      [] atom = "J_text_empty" -> TextDelta(0, "")
      [] atom = "J_args_0_seven" -> InputJsonDelta(0, Seven)
      [] atom = "J_args_0_array" -> InputJsonDelta(0, ArrayOfOne)
      [] OTHER -> EmptyPayload

\* the atoms that are the text of a JSON object
PayloadAtoms ==
    {"J_text_Hel", "J_text_lo", "J_start_0", "J_start_1", "J_args_0_open",
     "J_args_0_close", "J_args_1_open", "J_args_1_close", "J_error_boom",
     "J_block_text_Hi", "J_block_think_Hm", "J_think_mm", "J_redacted_xx",
     "J_text_empty", "J_args_0_seven", "J_args_0_array"}

\* the atoms that are valid JSON text of a falsy value
FalsyJsonAtoms == {"null", "0", "false"}

Undefined == [defined |-> FALSE, truthy |-> FALSE, value |-> EmptyPayload]

\* mutant: text that is no JSON is taken for an empty object
safeJsonParse_Lenient(data) ==
    IF Len(data) = 1 /\ data[1] \in PayloadAtoms
    THEN [defined |-> TRUE, truthy |-> TRUE, value |-> Payload(data[1])]
    ELSE IF Len(data) = 1 /\ data[1] \in FalsyJsonAtoms
    THEN [defined |-> TRUE, truthy |-> FALSE, value |-> EmptyPayload]
    ELSE [defined |-> TRUE, truthy |-> TRUE, value |-> EmptyPayload]

\* safeJsonParse of a frame's data: JSON.parse, undefined when it throws
safeJsonParse(data) ==
    IF Len(data) = 1 /\ data[1] \in PayloadAtoms
    THEN [defined |-> TRUE, truthy |-> TRUE, value |-> Payload(data[1])]
    ELSE IF Len(data) = 1 /\ data[1] \in FalsyJsonAtoms
    THEN [defined |-> TRUE, truthy |-> FALSE, value |-> EmptyPayload]
    ELSE Undefined

-----------------------------------------------------------------------------
(* Tool-call arguments *)

EmptyArgs == [kind |-> "object", json |-> "{}"]

\* the text is one or more digits 7: a JSON number that is not zero
AllSevens(input) ==
    /\ input /= ""
    /\ \A k \in 1..Len(input) : SubSeq(input, k, k) = "7"

\* safeJsonParse of an argument buffer: the JSON texts the fragments can spell
ParseArgsJson(input) ==
    CASE input = "{\"a\":1}" ->
             [defined |-> TRUE, truthy |-> TRUE,
              value |-> [kind |-> "object", json |-> "{\"a\":1}"]]
      [] input = "{}" ->
             [defined |-> TRUE, truthy |-> TRUE, value |-> EmptyArgs]
      [] input = "[1]" ->
             [defined |-> TRUE, truthy |-> TRUE,
              value |-> [kind |-> "array", json |-> "[1]"]]
      [] AllSevens(input) ->
             [defined |-> TRUE, truthy |-> TRUE,
              value |-> [kind |-> "number", json |-> input]]
      [] OTHER -> [defined |-> FALSE, truthy |-> FALSE, value |-> EmptyArgs]

parseToolArgs(input) ==
    IF input = "" THEN EmptyArgs
    ELSE LET parsed == ParseArgsJson(input)
         IN  IF parsed.defined /\ parsed.truthy THEN parsed.value ELSE EmptyArgs

getToolInputString(input) ==
    IF input.kind = "absent" \/ (input.kind = "string" /\ input.json = "") THEN ""
    ELSE IF input.kind = "string" THEN input.json
    ELSE IF input.kind /= "object" THEN ""
    ELSE IF input.keys = 0 THEN ""
    ELSE input.json

-----------------------------------------------------------------------------
(* The accumulator of generateWithAnthropic: the locals of one call, as a   *)
(* record, and what one frame does to them.                                 *)

NoMessage == [kind |-> "none"]

InitAcc ==
    [gen |-> "reading", textContent |-> "", reasoningContent |-> "",
     toolCallsMap |-> <<>>, emitted |-> <<>>, frames |-> <<>>, failure |-> ""]

\* mutant: only the text fragments are sent to the writer
Emit_TextOnly(acc, wr, mid, type, content) ==
    IF wr /\ type = "content_chunk"
    THEN [acc EXCEPT !.emitted =
              Append(@, [type |-> type, message_id |-> mid, content |-> content])]
    ELSE acc

\* mutant: the writer is called without the test, which throws when there
\* is none
Emit_Unguarded(acc, wr, mid, type, content) ==
    IF wr
    THEN [acc EXCEPT !.emitted =
              Append(@, [type |-> type, message_id |-> mid, content |-> content])]
    ELSE [acc EXCEPT !.gen = "failed", !.failure = "writer is not a function"]

\* if (writer) writer({type, message_id, content})
Emit(acc, wr, mid, type, content) ==
    IF wr
    THEN [acc EXCEPT !.emitted =
              Append(@, [type |-> type, message_id |-> mid, content |-> content])]
    ELSE acc

\* a || b on strings
Or(a, b) == IF a /= "" THEN a ELSE b

\* if (parsed.event === "content_block_start") { ... }
OnBlockStart(acc, payload, wr, mid) ==
    LET block == payload.content_block
        index == payload.index
    IN  IF block.type = "text" /\ block.text /= ""
        THEN Emit([acc EXCEPT !.textContent = @ \o block.text],
                  wr, mid, "content_chunk", block.text)
        ELSE IF block.type \in {"thinking", "redacted_thinking"}
                /\ Or(block.thinking, block.text) /= ""
        THEN LET thinkingText == Or(block.thinking, block.text)
             IN  Emit([acc EXCEPT !.reasoningContent = @ \o thinkingText],
                      wr, mid, "reasoning_chunk", thinkingText)
        ELSE IF block.type = "tool_use"
        THEN [acc EXCEPT !.toolCallsMap =
                  (index :> [id |-> block.id, name |-> block.name,
                             input |-> getToolInputString(block.input)]) @@ @]
        ELSE acc

\* mutant: = for +=
AppendInput_Overwrite(input, partial_json) == partial_json

\* toolCallsMap[index].input += delta.partial_json
AppendInput(input, partial_json) == input \o partial_json

\* if (parsed.event === "content_block_delta") { ... }
OnBlockDelta(acc, payload, wr, mid) ==
    LET index == payload.index
        delta == payload.delta
    IN  IF delta.type = "text_delta" /\ delta.text /= ""
        THEN Emit([acc EXCEPT !.textContent = @ \o delta.text],
                  wr, mid, "content_chunk", delta.text)
        ELSE IF delta.type \in {"thinking_delta", "redacted_thinking_delta"}
                /\ Or(delta.thinking, delta.text) /= ""
        THEN LET thinkingText == Or(delta.thinking, delta.text)
             IN  Emit([acc EXCEPT !.reasoningContent = @ \o thinkingText],
                      wr, mid, "reasoning_chunk", thinkingText)
        ELSE IF delta.type = "input_json_delta" /\ delta.partial_json /= ""
        THEN LET map == IF index \in DOMAIN acc.toolCallsMap
                        THEN acc.toolCallsMap
                        ELSE (index :> [id |-> "", name |-> "", input |-> ""])
                                 @@ acc.toolCallsMap
             IN  [acc EXCEPT !.toolCallsMap =
                      [map EXCEPT ![index].input = AppendInput(@, delta.partial_json)]]
        ELSE acc

\* mutant: the event name compared with the wrong spelling
IsErrorEvent_Misspelt(parsed) == parsed.event = <<"Error">>

\* whether the frame is classified by its event name at all, and how
IsErrorEvent(parsed) == parsed.event = <<"error">>
IsBlockStartEvent(parsed) == parsed.event = <<"content_block_start">>
IsBlockDeltaEvent(parsed) == parsed.event = <<"content_block_delta">>

\* the body of the inner while loop for one chunk (lines 330-406)
ProcessChunk(acc, chunk, wr, mid) ==
    LET parsed == parseEventPayload(chunk)
    IN  IF ~parsed.ok \/ parsed.data = <<"[DONE]">> THEN acc
        ELSE LET json == safeJsonParse(parsed.data)
                 payload == json.value
                 seen == [acc EXCEPT !.frames =
                              Append(@, [event |-> parsed.event, data |-> parsed.data])]
             IN  IF ~(json.defined /\ json.truthy) THEN acc
                 ELSE IF IsErrorEvent(parsed)
                 THEN [seen EXCEPT !.gen = "failed",
                                   !.failure = Or(payload.error_message,
                                                  Or(payload.message,
                                                     "Unknown streaming error"))]
                 ELSE LET a1 == IF IsBlockStartEvent(parsed)
                                THEN OnBlockStart(seen, payload, wr, mid)
                                ELSE seen
                      IN  IF IsBlockDeltaEvent(parsed)
                          THEN OnBlockDelta(a1, payload, wr, mid)
                          ELSE a1

\* buffer = buffer.slice(boundaryIndex + 2)
AfterBoundary(buf, boundaryIndex) == SliceFrom(buf, boundaryIndex + 2)

RECURSIVE Drain(_, _, _, _)
\* the inner while (true) loop: every complete frame of the buffer, in
\* order, until no terminator is left or a frame throws
Drain(acc, buf, wr, mid) ==
    LET boundaryIndex == IndexOfBoundary(buf)
    IN  IF boundaryIndex = -1 THEN [acc |-> acc, buffer |-> buf]
        ELSE LET chunk == SliceTo(buf, boundaryIndex)
                 rest == AfterBoundary(buf, boundaryIndex)
                 next == ProcessChunk(acc, chunk, wr, mid)
             IN  IF next.gen = "failed" THEN [acc |-> next, buffer |-> rest]
                 ELSE Drain(next, rest, wr, mid)

\* mutant: the text left in the buffer is lost at each read
BufferAfterRead_Overwrite(buf, value) == value

\* buffer += decoder.decode(value, { stream: true })
BufferAfterRead(buf, value) == buf \o value

RECURSIVE SortedIndices_Descending(_)
\* mutant: the comparator reversed, Number(b) - Number(a)
SortedIndices_Descending(S) ==
    IF S = {} THEN <<>>
    ELSE LET m == CHOOSE i \in S : \A j \in S : i >= j
         IN  <<m>> \o SortedIndices_Descending(S \ {m})

RECURSIVE SortedIndices(_)
\* Object.entries(toolCallsMap).sort(([a], [b]) => Number(a) - Number(b)),
\* the keys only
SortedIndices(S) ==
    IF S = {} THEN <<>>
    ELSE LET m == CHOOSE i \in S : \A j \in S : i <= j
         IN  <<m>> \o SortedIndices(S \ {m})

\* formattedToolCalls
FormatToolCalls(map) ==
    LET order == SortedIndices(DOMAIN map)
    IN  [k \in 1..Len(order) |->
            [name |-> map[order[k]].name,
             args |-> parseToolArgs(map[order[k]].input),
             id |-> map[order[k]].id]]

\* mutant: the message gets an identifier of its own at assembly
AssembleMessage_OwnId(acc, mid) ==
    [kind |-> "ai", id |-> "msg_0", content |-> acc.textContent,
     tool_calls |-> FormatToolCalls(acc.toolCallsMap),
     reasoning_content |-> acc.reasoningContent]

\* new AIMessage({...}) of lines 418-425; tool_calls undefined is <<>>,
\* reasoning_content undefined is ""
AssembleMessage(acc, mid) ==
    [kind |-> "ai", id |-> mid, content |-> acc.textContent,
     tool_calls |-> FormatToolCalls(acc.toolCallsMap),
     reasoning_content |-> acc.reasoningContent]

Acc ==
    [gen |-> gen, textContent |-> textContent, reasoningContent |-> reasoningContent,
     toolCallsMap |-> toolCallsMap, emitted |-> emitted, frames |-> frames,
     failure |-> failure]

SetAcc(acc) ==
    /\ gen' = acc.gen
    /\ textContent' = acc.textContent
    /\ reasoningContent' = acc.reasoningContent
    /\ toolCallsMap' = acc.toolCallsMap
    /\ emitted' = acc.emitted
    /\ frames' = acc.frames
    /\ failure' = acc.failure

\* One turn of the outer loop: reader.read() delivers the next n atoms, the
\* inner loop handles every frame they complete.
Read ==
    /\ gen = "reading"
    /\ pos < Len(text)
    /\ \E n \in 1..(Len(text) - pos) :
          LET value == SubSeq(text, pos + 1, pos + n)
              out == Drain(Acc, BufferAfterRead(buffer, value), writer, messageId)
          IN  /\ pos' = pos + n
              /\ buffer' = out.buffer
              /\ SetAcc(out.acc)
    /\ UNCHANGED <<text, writer, messageId, result>>
    /\ UNCHANGED <<graphVars, clientVars>>

\* mutant: what is left in the buffer is handled as a last frame
EndOfStream_FlushesBuffer ==
    /\ gen = "reading"
    /\ pos = Len(text)
    /\ LET last == ProcessChunk(Acc, buffer, writer, messageId)
       IN  /\ gen' = IF last.gen = "failed" THEN "failed" ELSE "returned"
           /\ textContent' = last.textContent
           /\ reasoningContent' = last.reasoningContent
           /\ toolCallsMap' = last.toolCallsMap
           /\ emitted' = last.emitted
           /\ frames' = last.frames
           /\ failure' = last.failure
           /\ result' = IF last.gen = "failed" THEN NoMessage
                         ELSE AssembleMessage(last, messageId)
    /\ UNCHANGED <<text, pos, buffer, writer, messageId>>
    /\ UNCHANGED <<graphVars, clientVars>>

\* reader.read() reports done: the message is assembled and returned
EndOfStream ==
    /\ gen = "reading"
    /\ pos = Len(text)
    /\ gen' = "returned"
    /\ result' = AssembleMessage(Acc, messageId)
    /\ UNCHANGED <<text, pos, buffer, textContent, reasoningContent, toolCallsMap,
                   emitted, frames, writer, messageId, failure>>
    /\ UNCHANGED <<graphVars, clientVars>>

NextStream == Read \/ EndOfStream

-----------------------------------------------------------------------------
(* The streams a provider call is run on *)

\* one frame: its lines, each ended by "\n", and the blank line
Frame(lines) == JoinLines(lines) \o <<NL, NL>>

EventLine(name) == <<"event:", SP, name>>
DataLine(payload) == <<"data:", SP, payload>>

EventFrame(name, payload) == Frame(<<EventLine(name), DataLine(payload)>>)
DataFrame(payload) == Frame(<<DataLine(payload)>>)

\* text deltas with and without an event: line; error frames with a JSON
\* payload, with a payload that is no JSON, with the [DONE] sentinel and
\* with no data line; a stray line terminator
TextCatalogue ==
    {EventFrame("content_block_delta", "J_text_Hel"),
     EventFrame("content_block_delta", "J_text_lo"),
     DataFrame("J_text_Hel"),
     DataFrame("J_text_lo"),
     EventFrame("error", "J_error_boom"),
     EventFrame("error", "upstream timeout"),
     EventFrame("error", "[DONE]"),
     Frame(<<EventLine("error")>>),
     <<NL>>}

\* the same frame written without the optional space after the colon
CompactFrame(name, payload) ==
    Frame(<<<<"event:", name>>, <<"data:", payload>>>>)

\* tool_use block starts of two stream indices and their argument deltas
ToolCatalogue ==
    {CompactFrame("content_block_start", "J_start_0"),
     CompactFrame("content_block_start", "J_start_1"),
     CompactFrame("content_block_delta", "J_args_0_open"),
     CompactFrame("content_block_delta", "J_args_0_close"),
     CompactFrame("content_block_delta", "J_args_1_close")}

RECURSIVE Streams(_, _)
\* the concatenations of at most n pieces of the catalogue
Streams(catalogue, n) ==
    IF n = 0 THEN {<<>>}
    ELSE LET shorter == Streams(catalogue, n - 1)
         IN  shorter \cup {s \o f : s \in shorter, f \in catalogue}

MessageIds == {"msg_1"}

InitStream(streams, writers) ==
    /\ text \in streams
    /\ pos = 0
    /\ buffer = <<>>
    /\ textContent = ""
    /\ reasoningContent = ""
    /\ toolCallsMap = <<>>
    /\ emitted = <<>>
    /\ frames = <<>>
    /\ writer \in writers
    /\ messageId \in MessageIds
    /\ gen = "reading"
    /\ result = NoMessage
    /\ failure = ""

\* the servers mcp-service.json can name
ServerNames == {"roxybrowser-openapi", "filesystem"}

\* what reading the configuration gives: nothing usable, or its mcpServers
Configs ==
    {[readable |-> FALSE, mcpServers |-> {}]}
        \cup {[readable |-> TRUE, mcpServers |-> S] : S \in SUBSET ServerNames}

\* a caller that has not called yet
NotCalled == [fn |-> "", at |-> "idle", awaited |-> {}, tools |-> <<>>]

\* no client was made and nobody has called
ClientsIdle ==
    /\ mcpConfig = [readable |-> FALSE, mcpServers |-> {}]
    /\ mcpClients = <<>>
    /\ isInitialized = FALSE
    /\ mcpCalls = [c \in 1..MaxCallers |-> NotCalled]
    /\ connects = [s \in ServerNames |-> 0]

\* where a call is once initializeMCPClient has returned to it
AfterInitialize(fn) == IF fn = "getMCPTools" THEN "listing" ELSE "done"

\* a call starts and runs to its first await: getMCPTools tests
\* isInitialized and calls initializeMCPClient, which tests it again, reads
\* the configuration and starts the connect of every configured server
Call(c, fn) ==
    /\ mcpCalls[c].at = "idle"
    /\ IF isInitialized
       THEN /\ mcpCalls' = [mcpCalls EXCEPT ![c] =
                               [NotCalled EXCEPT !.fn = fn, !.at = AfterInitialize(fn)]]
            /\ UNCHANGED <<isInitialized, connects>>
       ELSE IF ~mcpConfig.readable \/ mcpConfig.mcpServers = {}
       THEN /\ isInitialized' = TRUE
            /\ mcpCalls' = [mcpCalls EXCEPT ![c] =
                               [NotCalled EXCEPT !.fn = fn, !.at = AfterInitialize(fn)]]
            /\ UNCHANGED connects
       ELSE /\ connects' = [s \in ServerNames |->
                               IF s \in mcpConfig.mcpServers THEN connects[s] + 1
                               ELSE connects[s]]
            /\ mcpCalls' = [mcpCalls EXCEPT ![c] =
                               [NotCalled EXCEPT !.fn = fn, !.at = "connecting",
                                                 !.awaited = mcpConfig.mcpServers]]
            /\ UNCHANGED isInitialized
    /\ UNCHANGED <<mcpConfig, mcpClients>>
    /\ UNCHANGED <<streamVars, graphVars>>

CallGetMCPTools == \E c \in 1..MaxCallers : Call(c, "getMCPTools")
CallInitializeMCPClient == \E c \in 1..MaxCallers : Call(c, "initializeMCPClient")

\* client.connect of one server settles for the call that awaits it
ConnectSettles(ok) ==
    \E c \in 1..MaxCallers :
        /\ mcpCalls[c].at = "connecting"
        /\ \E s \in mcpCalls[c].awaited :
              /\ mcpClients' = IF ok THEN Append(mcpClients, s) ELSE mcpClients
              /\ mcpCalls' = [mcpCalls EXCEPT ![c].awaited = @ \ {s}]
        /\ UNCHANGED <<mcpConfig, isInitialized, connects>>
        /\ UNCHANGED <<streamVars, graphVars>>

\* connect resolved: the client is pushed to mcpClients
ConnectResolves == ConnectSettles(TRUE)

\* connect rejected: the catch block warns and nothing is pushed
ConnectRejects == ConnectSettles(FALSE)

\* Promise.all resolved: initializeMCPClient sets the flag and returns
InitializeReturns ==
    \E c \in 1..MaxCallers :
        /\ mcpCalls[c].at = "connecting"
        /\ mcpCalls[c].awaited = {}
        /\ isInitialized' = TRUE
        /\ mcpCalls' = [mcpCalls EXCEPT ![c].at = AfterInitialize(mcpCalls[c].fn)]
        /\ UNCHANGED <<mcpConfig, mcpClients, connects>>
        /\ UNCHANGED <<streamVars, graphVars>>

\* getMCPTools lists the tools of every client of mcpClients and returns
GetMCPToolsReturns ==
    \E c \in 1..MaxCallers :
        /\ mcpCalls[c].at = "listing"
        /\ mcpCalls' = [mcpCalls EXCEPT ![c].at = "done", ![c].tools = mcpClients]
        /\ UNCHANGED <<mcpConfig, mcpClients, isInitialized, connects>>
        /\ UNCHANGED <<streamVars, graphVars>>

NextClients ==
    \/ CallGetMCPTools
    \/ CallInitializeMCPClient
    \/ ConnectResolves
    \/ ConnectRejects
    \/ InitializeReturns
    \/ GetMCPToolsReturns

\* no graph is running
GraphIdle ==
    /\ messages = <<>>
    /\ node = "off"
    /\ ti = 0
    /\ toolMessages = <<>>
    /\ icount = 0
    /\ resumes = <<>>
    /\ request = [pending |-> FALSE]
    /\ batch = <<>>
    /\ dispatched = <<>>
    /\ gateLog = <<>>
    /\ lastReturn = <<>>
    /\ modelCalls = 0

InitText ==
    InitStream(Streams(TextCatalogue, MaxTextFrames), {TRUE}) /\ GraphIdle /\ ClientsIdle
InitTools ==
    InitStream(Streams(ToolCatalogue, MaxToolFrames), {TRUE}) /\ GraphIdle /\ ClientsIdle

SpecText == InitText /\ [][NextStream]_vars
SpecTools == InitTools /\ [][NextStream]_vars

\* text and reasoning fragments in block starts and in deltas, a delta with
\* an empty fragment, a tool call's frames and an error frame
ChunkCatalogue ==
    {CompactFrame("content_block_start", "J_block_text_Hi"),
     CompactFrame("content_block_start", "J_block_think_Hm"),
     CompactFrame("content_block_delta", "J_text_Hel"),
     CompactFrame("content_block_delta", "J_think_mm"),
     CompactFrame("content_block_delta", "J_redacted_xx"),
     CompactFrame("content_block_delta", "J_text_empty"),
     CompactFrame("content_block_start", "J_start_0"),
     CompactFrame("content_block_delta", "J_args_0_open"),
     CompactFrame("error", "J_error_boom")}

\* what the template of line 263 can give two provider calls
ChunkMessageIds == {"msg_1", "msg_2"}

\* a provider call with or without a writer in its config
InitChunks ==
    /\ text \in Streams(ChunkCatalogue, MaxChunkFrames)
    /\ pos = 0
    /\ buffer = <<>>
    /\ textContent = ""
    /\ reasoningContent = ""
    /\ toolCallsMap = <<>>
    /\ emitted = <<>>
    /\ frames = <<>>
    /\ writer \in {TRUE, FALSE}
    /\ messageId \in ChunkMessageIds
    /\ gen = "reading"
    /\ result = NoMessage
    /\ failure = ""
    /\ GraphIdle
    /\ ClientsIdle

SpecChunks == InitChunks /\ [][NextStream]_vars

\* a tool call whose argument fragments spell a JSON object, a number, an
\* array, or no JSON text at all
ArgsCatalogue ==
    {CompactFrame("content_block_start", "J_start_0"),
     CompactFrame("content_block_delta", "J_args_0_open"),
     CompactFrame("content_block_delta", "J_args_0_close"),
     CompactFrame("content_block_delta", "J_args_0_seven"),
     CompactFrame("content_block_delta", "J_args_0_array")}

InitArgs ==
    InitStream(Streams(ArgsCatalogue, MaxChunkFrames + 1), {TRUE}) /\ GraphIdle
        /\ ClientsIdle

SpecArgs == InitArgs /\ [][NextStream]_vars

\* the frames a stream is cut off after
TailCatalogue ==
    {CompactFrame("content_block_delta", "J_text_Hel"),
     CompactFrame("content_block_delta", "J_think_mm"),
     CompactFrame("content_block_start", "J_start_0")}

\* what the stream can end with after its last blank line: nothing, a text
\* delta or an error frame with all their lines but no terminator, the same
\* with a single line terminator, an argument delta, a line cut short
Tails ==
    {<<>>,
     <<"event:", "content_block_delta", NL, "data:", "J_text_lo">>,
     <<"event:", "content_block_delta", NL, "data:", "J_text_lo", NL>>,
     <<"event:", "error", NL, "data:", "J_error_boom">>,
     <<"event:", "error", NL, "data:", "J_error_boom", NL>>,
     <<"event:", "content_block_delta", NL, "data:", "J_args_0_open">>,
     <<"event:", "content_block_delta", NL, "data:">>}

InitTail ==
    /\ InitStream({s \o tail : s \in Streams(TailCatalogue, MaxChunkFrames),
                                tail \in Tails}, {TRUE})
    /\ GraphIdle
    /\ ClientsIdle

SpecTail == InitTail /\ [][NextStream]_vars

-----------------------------------------------------------------------------
(* Messages of the history.  Every message has every field; a field a kind  *)
(* does not carry is "" (or <<>> for tool_calls, FALSE for the flags).      *)

HITL_REJECT_MARKER == "[HITL_REJECTED]"

HumanMessage(content) ==
    [kind |-> "human", content |-> content, tool_calls |-> <<>>,
     tool_call_id |-> "", name |-> "", error |-> FALSE, hitl_rejected |-> FALSE]

AIMessage(content, tool_calls) ==
    [kind |-> "ai", content |-> content, tool_calls |-> tool_calls,
     tool_call_id |-> "", name |-> "", error |-> FALSE, hitl_rejected |-> FALSE]

ToolMessage(content, toolCallId, toolName, error, rejected) ==
    [kind |-> "tool", content |-> content, tool_calls |-> <<>>,
     tool_call_id |-> toolCallId, name |-> toolName, error |-> error,
     hitl_rejected |-> rejected]

\* formatToolResult: nothing, a string, or anything else through JSON
formatToolResult(res) ==
    IF res.kind = "none" THEN "Tool executed successfully with no output"
    ELSE IF res.kind = "string" THEN res.value
    ELSE res.json

\* mutant: the tool-result does not name its call
createToolMessage_NoCallId(res, toolCallId, toolName) ==
    ToolMessage(formatToolResult(res), "", toolName, FALSE, FALSE)

createToolMessage(res, toolCallId, toolName) ==
    ToolMessage(formatToolResult(res), toolCallId, toolName, FALSE, FALSE)

\* mutant: the failure is reported as an ordinary output
createErrorToolMessage_AsOutput(errorMessage, toolCallId, toolName) ==
    ToolMessage(errorMessage, toolCallId, toolName, FALSE, FALSE)

createErrorToolMessage(errorMessage, toolCallId, toolName) ==
    ToolMessage("Error executing tool: " \o errorMessage, toolCallId, toolName,
                TRUE, FALSE)

createRejectionToolMessage(toolCallId, toolName) ==
    ToolMessage(HITL_REJECT_MARKER \o " User rejected deletion request.",
                toolCallId, toolName, TRUE, TRUE)

\* the fixed reply of chat after a rejection
RejectionNotice == AIMessage("deletion rejected by the user, stopping", <<>>)

\* one character of String.prototype.toLowerCase
ToLowerChar(c) ==
    LET upper == "ABCDEFGHIJKLMNOPQRSTUVWXYZ"
        lower == "abcdefghijklmnopqrstuvwxyz"
        hits == {k \in 1..Len(upper) : SubSeq(upper, k, k) = c}
    IN  IF hits = {} THEN c
        ELSE LET k == CHOOSE j \in hits : TRUE IN SubSeq(lower, k, k)

RECURSIVE ToLowerCase(_)
\* name.toLowerCase()
ToLowerCase(str) ==
    IF str = "" THEN ""
    ELSE ToLowerChar(SubSeq(str, 1, 1)) \o ToLowerCase(SubSeq(str, 2, Len(str)))

\* str.includes(part)
Includes(str, part) ==
    \E k \in 1..(Len(str) - Len(part) + 1) : SubSeq(str, k, k + Len(part) - 1) = part

\* str.startsWith(part)
StartsWithText(str, part) ==
    Len(part) <= Len(str) /\ SubSeq(str, 1, Len(part)) = part

\* executeMCPTool giving a text that quotes the marker, a window title, or
\* throwing an Error that quotes it
QuotingOutcomes ==
    {[ok |-> TRUE,
      res |-> [kind |-> "string", value |-> "window 3: " \o HITL_REJECT_MARKER \o " notes"],
      message |-> ""],
     [ok |-> FALSE, res |-> [kind |-> "none"],
      message |-> HITL_REJECT_MARKER \o " is not a window"]}

\* the contents the tool messages of the act step have
ToolMessageContents ==
    {createRejectionToolMessage("", "").content,
     createToolMessage([kind |-> "none"], "", "").content,
     createToolMessage([kind |-> "string", value |-> "done"], "", "").content,
     createErrorToolMessage("timeout", "", "").content,
     createErrorToolMessage("interrupt", "", "").content}
    \cup {IF outcome.ok THEN createToolMessage(outcome.res, "", "").content
          ELSE createErrorToolMessage(outcome.message, "", "").content :
             outcome \in QuotingOutcomes}

\* content.includes(HITL_REJECT_MARKER), worked out once for those contents
MarkerByContent ==
    [content \in ToolMessageContents |-> Includes(content, HITL_REJECT_MARKER)]

\* message.content.includes(HITL_REJECT_MARKER)
IncludesMarker(content) ==
    IF content \in ToolMessageContents THEN MarkerByContent[content]
    ELSE Includes(content, HITL_REJECT_MARKER)

\* mutant: the marker is never found
isRejectedToolMessage_Never(message) == FALSE

isRejectedToolMessage(message) ==
    /\ message.kind = "tool"
    /\ IncludesMarker(message.content)

-----------------------------------------------------------------------------
(* Tool names and the approval gate *)

DeleteWindowTool == "roxybrowser-openapi__delete_window"
ListWindowsTool == "roxybrowser-openapi__list_windows"

ToolNames == {DeleteWindowTool, ListWindowsTool}

\* the names tools are given by their servers: a server prefix, or none,
\* then what the tool does and to what
ServerToolNames ==
    {prefix \o verb \o target :
        prefix \in {"roxybrowser-openapi__", "RoxyBrowser-OpenAPI__",
                    "filesystem__", "playwright__"},
        verb \in {"delete", "Remove", "list", "close"},
        target \in {"_window", "_Browser", "_windows", "_proxy"}}

\* what the tests of isDeleteWindowTool find in name.toLowerCase()
FactsOfName(name) ==
    LET normalized == ToLowerCase(name)
    IN  [prefix |-> StartsWithText(normalized, "roxybrowser-openapi__"),
         delete |-> Includes(normalized, "delete"),
         remove |-> Includes(normalized, "remove"),
         browser |-> Includes(normalized, "browser"),
         window |-> Includes(normalized, "window")]

\* the same, worked out once for every name a tool call can carry
NameFactsByName == [name \in ToolNames \cup ServerToolNames |-> FactsOfName(name)]

NameFacts(name) == NameFactsByName[name]

isDeleteWindowTool(name) ==
    LET normalized == NameFacts(name)
    IN  IF ~normalized.prefix THEN FALSE
        ELSE LET isDeleteAction == normalized.delete \/ normalized.remove
                 isBrowserTarget == normalized.browser \/ normalized.window
             IN  isDeleteAction /\ isBrowserTarget

buildDeleteInterrupt(toolCall) ==
    [pending |-> TRUE,
     action_requests |-> <<[name |-> toolCall.name, args |-> toolCall.args]>>,
     review_configs |-> <<[action_name |-> toolCall.name,
                           allowed_decisions |-> <<"approve", "reject">>]>>]

NoRequest == [pending |-> FALSE]

OriginalArgs == "{\"id\":1}"
EditedArgs == "{\"id\":2}"
NoArgs == "undefined"

\* a decision of a resume value; edited_action.args is NoArgs when absent
MkDecision(type, name, args) ==
    [defined |-> TRUE, type |-> type, edited_name |-> name, edited_args |-> args]

NoDecision ==
    [defined |-> FALSE, type |-> "", edited_name |-> "", edited_args |-> NoArgs]

\* a resume value: whether it is an object, whether its decisions field is
\* an array, and the array
MkResume(decisions) == [object |-> TRUE, array |-> TRUE, decisions |-> decisions]

\* the values an approval can be resumed with: the three well-formed
\* decisions, and the malformed ones
ApproveResume == MkResume(<<MkDecision("approve", "", NoArgs)>>)
RejectResume == MkResume(<<MkDecision("reject", "", NoArgs)>>)
EditResume == MkResume(<<MkDecision("edit", ListWindowsTool, EditedArgs)>>)
EditWithoutArgsResume == MkResume(<<MkDecision("edit", "", NoArgs)>>)
UnknownTypeResume == MkResume(<<MkDecision("later", "", NoArgs)>>)
EmptyDecisionsResume == MkResume(<<>>)
NoDecisionsResume == [object |-> TRUE, array |-> FALSE, decisions |-> <<>>]
NotAnObjectResume == [object |-> FALSE, array |-> FALSE, decisions |-> <<>>]

ResumeValues ==
    {ApproveResume, RejectResume, EditResume, EditWithoutArgsResume,
     UnknownTypeResume, EmptyDecisionsResume, NoDecisionsResume, NotAnObjectResume}

getDecision(resumeValue) ==
    IF ~resumeValue.object THEN NoDecision
    ELSE IF ~resumeValue.array \/ Len(resumeValue.decisions) = 0 THEN NoDecision
    ELSE resumeValue.decisions[1]

\* if (!decision || decision.type === "reject")
IsRejection(decision) == ~decision.defined \/ decision.type = "reject"

\* mutant: the edited args are dropped
ArgsAfterGate_KeepsOriginal(decision, args) == args

\* the args the call is dispatched with after the gate
ArgsAfterGate(decision, args) ==
    IF decision.type = "edit" /\ decision.edited_args /= NoArgs
    THEN decision.edited_args
    ELSE args

-----------------------------------------------------------------------------
(* The graph: chat, shouldContinue, tools *)

Last(seq) == seq[Len(seq)]

\* mutant: the tool-call list is not looked at
shouldContinue_AnyAssistantMessage(msgs) ==
    IF Last(msgs).kind /= "ai" THEN "end" ELSE "tools"

\* the conditional edge after chat
shouldContinue(msgs) ==
    LET lastMessage == Last(msgs)
    IN  IF lastMessage.kind /= "ai" THEN "end"
        ELSE IF Len(lastMessage.tool_calls) > 0 THEN "tools" ELSE "end"

\* tool ids, one per position a batch can have
ToolId(k) == "t" \o ToString(k)

RECURSIVE Ascending(_)
Ascending(S) ==
    IF S = {} THEN <<>>
    ELSE LET m == CHOOSE i \in S : \A j \in S : i <= j
         IN  <<m>> \o Ascending(S \ {m})

\* the tool-call lists a model reply can carry: at most MaxCalls calls with
\* different ids
Batches ==
    {[k \in 1..Len(Ascending(S)) |->
         [id |-> ToolId(Ascending(S)[k]), name |-> names[Ascending(S)[k]],
          args |-> OriginalArgs]] :
       S \in SUBSET (1..MaxCalls), names \in [1..MaxCalls -> ToolNames]}

\* what executeMCPTool can do: give a result or throw an Error
DispatchOutcomes ==
    {[ok |-> TRUE, res |-> [kind |-> "string", value |-> "done"], message |-> ""],
     [ok |-> FALSE, res |-> [kind |-> "none"], message |-> "timeout"]}

\* toolMessageIds of tools()
toolMessageIds(msgs) ==
    {msgs[k].tool_call_id : k \in {j \in 1..Len(msgs) : msgs[j].tool_call_id /= ""}}

\* the engine enters the node the edge names; tools() starts with fresh locals
Enter(target) ==
    /\ node' = target
    /\ ti' = IF target = "tools" THEN 1 ELSE 0
    /\ toolMessages' = <<>>
    /\ icount' = 0

\* chat, the rejection short-circuit
ChatAfterRejection ==
    /\ node = "chat"
    /\ isRejectedToolMessage(Last(messages))
    /\ messages' = Append(messages, RejectionNotice)
    /\ Enter(shouldContinue(messages'))
    /\ batch' = <<>>
    /\ dispatched' = <<>>
    /\ gateLog' = <<>>
    /\ lastReturn' = <<>>
    /\ UNCHANGED <<resumes, request, modelCalls>>
    /\ UNCHANGED <<streamVars, clientVars>>

\* chat, the model call returning a message
ChatModelReply ==
    /\ node = "chat"
    /\ ~isRejectedToolMessage(Last(messages))
    /\ modelCalls < MaxModelCalls
    /\ \E calls \in Batches :
          /\ messages' = Append(messages, AIMessage("reply", calls))
          /\ batch' = calls
    /\ Enter(shouldContinue(messages'))
    /\ modelCalls' = modelCalls + 1
    /\ dispatched' = <<>>
    /\ gateLog' = <<>>
    /\ lastReturn' = <<>>
    /\ UNCHANGED <<resumes, request>>
    /\ UNCHANGED <<streamVars, clientVars>>

\* chat, the model call failing: the run ends with the failure
ChatModelFails ==
    /\ node = "chat"
    /\ ~isRejectedToolMessage(Last(messages))
    /\ modelCalls < MaxModelCalls
    /\ modelCalls' = modelCalls + 1
    /\ Enter("failed")
    /\ UNCHANGED <<messages, resumes, request, batch, dispatched, gateLog, lastReturn>>
    /\ UNCHANGED <<streamVars, clientVars>>

\* the tool call the for loop of tools() is at
toolCalls == Last(messages).tool_calls
InLoop == node = "tools" /\ ti >= 1 /\ ti <= Len(toolCalls)

\* mutant: the replay guard never fires
IsReplayed_Never(toolCall) == FALSE

\* if (toolCall.id && toolMessageIds.has(toolCall.id)) continue
IsReplayed(toolCall) ==
    toolCall.id /= "" /\ toolCall.id \in toolMessageIds(messages)

\* tools() returns: the engine appends its messages and follows the edge to chat
Return(msgs) ==
    /\ messages' = messages \o msgs
    /\ lastReturn' = msgs
    /\ resumes' = <<>>
    /\ request' = NoRequest
    /\ Enter("chat")

\* for loop: the call already has a result in the history
ToolsSkip ==
    /\ InLoop
    /\ IsReplayed(toolCalls[ti])
    /\ ti' = ti + 1
    /\ UNCHANGED <<messages, node, toolMessages, icount, resumes, request, batch,
                   dispatched, gateLog, lastReturn, modelCalls>>
    /\ UNCHANGED <<streamVars, clientVars>>

\* mutant: the request surfaces but the loop goes on to the next call
ToolsSuspend_LoopGoesOn ==
    /\ InLoop
    /\ ~IsReplayed(toolCalls[ti])
    /\ isDeleteWindowTool(toolCalls[ti].name)
    /\ icount >= Len(resumes)
    /\ gateLog' = Append(gateLog, [pos |-> ti, suspended |-> TRUE,
                                   resume |-> NotAnObjectResume])
    /\ request' = buildDeleteInterrupt(toolCalls[ti])
    /\ ti' = ti + 1
    /\ UNCHANGED <<messages, node, toolMessages, icount, resumes, batch, dispatched,
                   lastReturn, modelCalls>>
    /\ UNCHANGED <<streamVars, clientVars>>

\* for loop: interrupt() of a sensitive call has no resume value, the run
\* of tools() is abandoned and the request surfaces
ToolsSuspend ==
    /\ InLoop
    /\ ~IsReplayed(toolCalls[ti])
    /\ isDeleteWindowTool(toolCalls[ti].name)
    /\ icount >= Len(resumes)
    /\ gateLog' = Append(gateLog, [pos |-> ti, suspended |-> TRUE,
                                   resume |-> NotAnObjectResume])
    /\ request' = buildDeleteInterrupt(toolCalls[ti])
    /\ Enter("interrupted")
    /\ UNCHANGED <<messages, resumes, batch, dispatched, lastReturn, modelCalls>>
    /\ UNCHANGED <<streamVars, clientVars>>

\* mutant: the break is missing, the loop goes on after a rejection
ToolsReject_NoBreak ==
    /\ InLoop
    /\ ~IsReplayed(toolCalls[ti])
    /\ isDeleteWindowTool(toolCalls[ti].name)
    /\ icount < Len(resumes)
    /\ IsRejection(getDecision(resumes[icount + 1]))
    /\ gateLog' = Append(gateLog, [pos |-> ti, suspended |-> FALSE,
                                   resume |-> resumes[icount + 1]])
    /\ toolMessages' =
          Append(toolMessages,
                 createRejectionToolMessage(toolCalls[ti].id, toolCalls[ti].name))
    /\ icount' = icount + 1
    /\ ti' = ti + 1
    /\ UNCHANGED <<messages, node, resumes, request, batch, dispatched, lastReturn,
                   modelCalls>>
    /\ UNCHANGED <<streamVars, clientVars>>

\* for loop: interrupt() of a sensitive call gives a resume value that is a
\* rejection; the loop breaks and tools() returns
ToolsReject ==
    /\ InLoop
    /\ ~IsReplayed(toolCalls[ti])
    /\ isDeleteWindowTool(toolCalls[ti].name)
    /\ icount < Len(resumes)
    /\ IsRejection(getDecision(resumes[icount + 1]))
    /\ gateLog' = Append(gateLog, [pos |-> ti, suspended |-> FALSE,
                                   resume |-> resumes[icount + 1]])
    /\ Return(Append(toolMessages,
                     createRejectionToolMessage(toolCalls[ti].id, toolCalls[ti].name)))
    /\ UNCHANGED <<batch, dispatched, modelCalls>>
    /\ UNCHANGED <<streamVars, clientVars>>

\* for loop: the call is dispatched, after the gate let it through if it is
\* sensitive, and its result or its Error becomes a tool message
\* the tool of the call at position p suspended the run from inside its
\* dispatch in an earlier run of tools(); run again, it calls interrupt()
\* again at the same point
InterruptsInside(p) ==
    \E d \in 1..Len(dispatched) : dispatched[d].pos = p /\ dispatched[d].interrupt

\* inner tells whether the tool itself calls interrupt() while it runs and
\* gets a resume value from it
Dispatch(outcomes, inner) ==
    /\ InLoop
    /\ ~IsReplayed(toolCalls[ti])
    /\ inner <=> InterruptsInside(ti)
    /\ LET toolCall == toolCalls[ti]
           gatedCall == isDeleteWindowTool(toolCall.name)
           decision == IF gatedCall THEN getDecision(resumes[icount + 1])
                       ELSE NoDecision
           args == IF gatedCall THEN ArgsAfterGate(decision, toolCall.args)
                   ELSE toolCall.args
           used == IF gatedCall THEN icount + 1 ELSE icount
       IN  /\ gatedCall => icount < Len(resumes) /\ ~IsRejection(decision)
           /\ inner => used < Len(resumes)
           /\ icount' = IF inner THEN used + 1 ELSE used
           /\ gateLog' = IF gatedCall
                         THEN Append(gateLog, [pos |-> ti, suspended |-> FALSE,
                                               resume |-> resumes[icount + 1]])
                         ELSE gateLog
           /\ \E outcome \in outcomes :
                 /\ dispatched' =
                       Append(dispatched, [pos |-> ti, id |-> toolCall.id,
                                           name |-> toolCall.name, args |-> args,
                                           run |-> Len(resumes), ok |-> outcome.ok,
                                           message |-> outcome.message,
                                           interrupt |-> FALSE])
                 /\ toolMessages' =
                       Append(toolMessages,
                              IF outcome.ok
                              THEN createToolMessage(outcome.res, toolCall.id,
                                                     toolCall.name)
                              ELSE createErrorToolMessage(outcome.message, toolCall.id,
                                                          toolCall.name))
    /\ ti' = ti + 1
    /\ UNCHANGED <<messages, node, resumes, request, batch, lastReturn, modelCalls>>
    /\ UNCHANGED <<streamVars, clientVars>>

ToolsDispatch == Dispatch(DispatchOutcomes, FALSE)

\* for loop: the dispatched tool gives a text that quotes the marker
ToolsDispatchQuotes == Dispatch(QuotingOutcomes, FALSE)

\* for loop: the tool called interrupt() while it ran and got the resume
\* value the engine held for it; the dispatch then ends as any other
ToolsDispatchResumed == Dispatch(DispatchOutcomes, TRUE)

\* what tools() does with a graph interrupt that executeMCPTool throws,
\* after the gate let the call through if it is sensitive
DispatchInterrupt(caught) ==
    /\ InLoop
    /\ ~IsReplayed(toolCalls[ti])
    /\ ~InterruptsInside(ti)
    /\ LET toolCall == toolCalls[ti]
           gatedCall == isDeleteWindowTool(toolCall.name)
           decision == IF gatedCall THEN getDecision(resumes[icount + 1])
                       ELSE NoDecision
           args == IF gatedCall THEN ArgsAfterGate(decision, toolCall.args)
                   ELSE toolCall.args
           used == IF gatedCall THEN icount + 1 ELSE icount
       IN  /\ gatedCall => icount < Len(resumes) /\ ~IsRejection(decision)
           /\ used >= Len(resumes)
           /\ Cardinality({d \in 1..Len(dispatched) : dispatched[d].interrupt})
                 < MaxToolInterrupts
           /\ gateLog' = IF gatedCall
                         THEN Append(gateLog, [pos |-> ti, suspended |-> FALSE,
                                               resume |-> resumes[icount + 1]])
                         ELSE gateLog
           /\ dispatched' =
                 Append(dispatched, [pos |-> ti, id |-> toolCall.id,
                                     name |-> toolCall.name, args |-> args,
                                     run |-> Len(resumes), ok |-> FALSE,
                                     message |-> "", interrupt |-> TRUE])
           /\ IF caught
              THEN /\ toolMessages' =
                        Append(toolMessages,
                               createErrorToolMessage("interrupt", toolCall.id,
                                                      toolCall.name))
                   /\ icount' = used
                   /\ ti' = ti + 1
                   /\ UNCHANGED <<node, request>>
              ELSE /\ request' = [pending |-> TRUE,
                                  action_requests |->
                                     <<[name |-> toolCall.name, args |-> args]>>,
                                  review_configs |-> <<>>]
                   /\ Enter("interrupted")
    /\ UNCHANGED <<messages, resumes, batch, lastReturn, modelCalls>>
    /\ UNCHANGED <<streamVars, clientVars>>

\* mutant: the catch block does not test isGraphInterrupt
ToolsDispatchInterrupts_Caught == DispatchInterrupt(TRUE)

\* for loop: the tool called interrupt() while it ran and there was no
\* resume value for it; the catch block throws the graph interrupt again
\* and the run of tools() is abandoned
ToolsDispatchInterrupts == DispatchInterrupt(FALSE)

\* the for loop is over: tools() returns
ToolsReturn ==
    /\ node = "tools"
    /\ ti > Len(toolCalls)
    /\ Return(toolMessages)
    /\ UNCHANGED <<batch, dispatched, gateLog, modelCalls>>
    /\ UNCHANGED <<streamVars, clientVars>>

\* the engine is resumed with a value: it keeps the value for the next
\* interrupt() call without one and runs tools() again from the top
\* here the request answered is an approval request of the gate
Resume ==
    /\ node = "interrupted"
    /\ request.pending
    /\ request.review_configs /= <<>>
    /\ \E value \in ResumeValues : resumes' = Append(resumes, value)
    /\ request' = NoRequest
    /\ Enter("tools")
    /\ UNCHANGED <<messages, batch, dispatched, gateLog, lastReturn, modelCalls>>
    /\ UNCHANGED <<streamVars, clientVars>>

\* the same for what a tool asked with its own interrupt(): the tool takes
\* any value, two stand for them
ResumeTool ==
    /\ node = "interrupted"
    /\ request.pending
    /\ request.review_configs = <<>>
    /\ \E value \in {ApproveResume, NotAnObjectResume} :
          resumes' = Append(resumes, value)
    /\ request' = NoRequest
    /\ Enter("tools")
    /\ UNCHANGED <<messages, batch, dispatched, gateLog, lastReturn, modelCalls>>
    /\ UNCHANGED <<streamVars, clientVars>>

NextGraph ==
    \/ ChatAfterRejection
    \/ ChatModelReply
    \/ ChatModelFails
    \/ ToolsSkip
    \/ ToolsSuspend
    \/ ToolsReject
    \/ ToolsDispatch
    \/ ToolsReturn
    \/ Resume

\* no provider call is being read
StreamIdle ==
    /\ text = <<>>
    /\ pos = 0
    /\ buffer = <<>>
    /\ textContent = ""
    /\ reasoningContent = ""
    /\ toolCallsMap = <<>>
    /\ emitted = <<>>
    /\ frames = <<>>
    /\ writer = FALSE
    /\ messageId = ""
    /\ gen = "off"
    /\ result = NoMessage
    /\ failure = ""

\* the graph is invoked with one human message
InitGraph ==
    /\ StreamIdle
    /\ ClientsIdle
    /\ messages = <<HumanMessage("delete my window")>>
    /\ node = "chat"
    /\ ti = 0
    /\ toolMessages = <<>>
    /\ icount = 0
    /\ resumes = <<>>
    /\ request = NoRequest
    /\ batch = <<>>
    /\ dispatched = <<>>
    /\ gateLog = <<>>
    /\ lastReturn = <<>>
    /\ modelCalls = 0

SpecGraph == InitGraph /\ [][NextGraph]_vars

\* the engine runs a node that is ready: a chat or tools step that can be
\* taken is taken; a suspended run waits for its resume as long as it likes
EngineStep ==
    \/ ChatAfterRejection
    \/ ChatModelReply
    \/ ChatModelFails
    \/ ToolsSkip
    \/ ToolsSuspend
    \/ ToolsReject
    \/ ToolsDispatch
    \/ ToolsReturn

SpecGraphFair == SpecGraph /\ WF_vars(EngineStep)

\* the histories the act step is entered on: a human message, possibly an
\* earlier assistant message whose one call has its result, and the reply
\* with the batch
PriorExchanges ==
    {<<>>} \cup
    {<<AIMessage("reply", <<[id |-> ToolId(1), name |-> n, args |-> OriginalArgs]>>),
       ToolMessage("done", ToolId(1), n, FALSE, FALSE)>> : n \in ToolNames}

\* one act phase: the engine enters tools() after a reply with tool calls
InitGate ==
    /\ StreamIdle
    /\ ClientsIdle
    /\ \E prior \in PriorExchanges, calls \in Batches \ {<<>>} :
          /\ messages = <<HumanMessage("delete my window")>> \o prior
                            \o <<AIMessage("reply", calls)>>
          /\ batch = calls
    /\ node = "tools"
    /\ ti = 1
    /\ toolMessages = <<>>
    /\ icount = 0
    /\ resumes = <<>>
    /\ request = NoRequest
    /\ dispatched = <<>>
    /\ gateLog = <<>>
    /\ lastReturn = <<>>
    /\ modelCalls = 1

\* the act phase with tools that can suspend the run themselves
NextGate ==
    \/ ToolsSkip
    \/ ToolsSuspend
    \/ ToolsReject
    \/ ToolsDispatch
    \/ ToolsDispatchInterrupts
    \/ ToolsDispatchResumed
    \/ ToolsReturn
    \/ Resume
    \/ ResumeTool

SpecGate == InitGate /\ [][NextGate]_vars

\* one act phase on a reply with one call, to a tool of any configured server
InitNames ==
    /\ StreamIdle
    /\ ClientsIdle
    /\ \E name \in ServerToolNames :
          LET calls == <<[id |-> ToolId(1), name |-> name, args |-> OriginalArgs]>>
          IN  /\ messages = <<HumanMessage("delete my window"),
                              AIMessage("reply", calls)>>
              /\ batch = calls
    /\ node = "tools"
    /\ ti = 1
    /\ toolMessages = <<>>
    /\ icount = 0
    /\ resumes = <<>>
    /\ request = NoRequest
    /\ dispatched = <<>>
    /\ gateLog = <<>>
    /\ lastReturn = <<>>
    /\ modelCalls = 1

NextNames ==
    \/ ToolsSuspend
    \/ ToolsReject
    \/ ToolsDispatch
    \/ ToolsReturn
    \/ Resume

SpecNames == InitNames /\ [][NextNames]_vars

\* the run is over and the graph is invoked again on the same thread: the
\* new human message is appended to the history and chat runs
HumanTurn ==
    /\ node = "end"
    /\ modelCalls < MaxModelCalls
    /\ messages' = Append(messages, HumanMessage("delete the other window"))
    /\ Enter("chat")
    /\ resumes' = <<>>
    /\ request' = NoRequest
    /\ batch' = <<>>
    /\ dispatched' = <<>>
    /\ gateLog' = <<>>
    /\ lastReturn' = <<>>
    /\ UNCHANGED modelCalls
    /\ UNCHANGED <<streamVars, clientVars>>

\* a conversation of several turns, with tools that can quote the marker
NextTurns ==
    \/ NextGraph
    \/ ToolsDispatchQuotes
    \/ HumanTurn

SpecTurns == InitGraph /\ [][NextTurns]_vars

\* the module is loaded, no client was made yet, and callers come
InitClients ==
    /\ StreamIdle
    /\ GraphIdle
    /\ mcpConfig \in Configs
    /\ mcpClients = <<>>
    /\ isInitialized = FALSE
    /\ mcpCalls = [c \in 1..MaxCallers |-> NotCalled]
    /\ connects = [s \in ServerNames |-> 0]

SpecClients == InitClients /\ [][NextClients]_vars

-----------------------------------------------------------------------------
(* What a stream is expected to give, stated over the text and the frames,  *)
(* not over the reader's loop.                                              *)

\* the text delivered so far
Delivered == SubSeq(text, 1, pos)

RECURSIVE CompleteChunks(_)
\* the frames of a text that are closed by a blank line, in order
CompleteChunks(s) ==
    LET b == IndexOfBoundary(s)
    IN  IF b = -1 THEN <<>>
        ELSE <<SubSeq(s, 1, b)>> \o CompleteChunks(SubSeq(s, b + 3, Len(s)))

\* the event name of a chunk: that of its last event: line, else "message"
EventNameOf(chunk) == ScanLines(SplitLines(chunk), <<"message">>, <<>>).event

\* the chunk reaches the classification: it has data, which is not the
\* sentinel and parses as a JSON value that is not falsy
IsAccepted(chunk) ==
    LET parsed == parseEventPayload(chunk)
    IN  /\ parsed.ok
        /\ parsed.data /= <<"[DONE]">>
        /\ safeJsonParse(parsed.data).defined
        /\ safeJsonParse(parsed.data).truthy

PayloadOf(frame) == safeJsonParse(frame.data).value

IsToolStart(frame, i) ==
    /\ frame.event = <<"content_block_start">>
    /\ PayloadOf(frame).content_block.type = "tool_use"
    /\ PayloadOf(frame).index = i

IsArgsDelta(frame, i) ==
    /\ frame.event = <<"content_block_delta">>
    /\ PayloadOf(frame).delta.type = "input_json_delta"
    /\ PayloadOf(frame).index = i

\* the stream indices a sequence of frames names in tool frames
ToolIndices(fs) ==
    {i \in 0..1 : \E k \in 1..Len(fs) : IsToolStart(fs[k], i) \/ IsArgsDelta(fs[k], i)}

\* the position of the last tool_use block start of index i, 0 if none
LastStart(fs, i) ==
    LET ks == {k \in 1..Len(fs) : IsToolStart(fs[k], i)}
    IN  IF ks = {} THEN 0 ELSE CHOOSE k \in ks : \A j \in ks : j <= k

RECURSIVE FragmentsAfter(_, _, _)
\* the partial_json texts of index i after position k, concatenated in
\* arrival order
FragmentsAfter(fs, i, k) ==
    IF k >= Len(fs) THEN ""
    ELSE (IF IsArgsDelta(fs[k + 1], i) THEN PayloadOf(fs[k + 1]).delta.partial_json
          ELSE "") \o FragmentsAfter(fs, i, k + 1)

\* JSON.parse of the text when it is valid JSON, the empty object otherwise
ParsedOrEmpty(json) ==
    IF ParseArgsJson(json).defined THEN ParseArgsJson(json).value ELSE EmptyArgs

\* the position of index i among the indices of S in ascending order
Rank(S, i) == Cardinality({j \in S : j < i}) + 1

RECURSIVE NotificationsOf(_, _)
\* the content_chunk notifications the text deltas of a frame sequence give
NotificationsOf(fs, mid) ==
    IF fs = <<>> THEN <<>>
    ELSE LET f == fs[Len(fs)]
             before == NotificationsOf(SubSeq(fs, 1, Len(fs) - 1), mid)
         IN  IF /\ f.event = <<"content_block_delta">>
                /\ PayloadOf(f).delta.type = "text_delta"
                /\ PayloadOf(f).delta.text /= ""
             THEN Append(before, [type |-> "content_chunk", message_id |-> mid,
                                  content |-> PayloadOf(f).delta.text])
             ELSE before

-----------------------------------------------------------------------------
(* Claims about generateWithAnthropic *)

\* C1: fragmentation invariance.  However the text delivered so far was cut
\* into fragments, the frames handed to the accumulator, the accumulators, the
\* notifications, the text left in the buffer and the outcome are those of
\* the same text arriving as a single fragment; the message returned at the
\* end of the stream is the one assembled from the whole text in one piece.
C1_FragmentationInvariance ==
    LET whole == Drain(InitAcc, Delivered, writer, messageId)
    IN  /\ frames = whole.acc.frames
        /\ emitted = whole.acc.emitted
        /\ textContent = whole.acc.textContent
        /\ reasoningContent = whole.acc.reasoningContent
        /\ toolCallsMap = whole.acc.toolCallsMap
        /\ failure = whole.acc.failure
        /\ buffer = whole.buffer
        /\ (gen = "failed") = (whole.acc.gen = "failed")
        /\ gen = "returned" =>
              /\ pos = Len(text)
              /\ result = AssembleMessage(whole.acc, messageId)

\* C1 witness: a fragment ended between the two line terminators of a blank
\* line, after an earlier frame was handed on, and the frame it closes is
\* still in the buffer.
C1_TerminatorSplitAcrossReads ==
    /\ gen = "reading"
    /\ frames /= <<>>
    /\ Len(buffer) > 1
    /\ buffer[Len(buffer)] = NL
    /\ pos < Len(text)
    /\ text[pos + 1] = NL

\* C2 (as claimed): the stream of the two data-only text deltas "Hel" and
\* "lo" ends with the text "Hello" and the two content_chunk notifications
\* "Hel" and "lo", in that order.
C2_DataOnlyDeltasAssembleHello ==
    (/\ text = DataFrame("J_text_Hel") \o DataFrame("J_text_lo")
     /\ gen = "returned")
    => /\ result.content = "Hello"
       /\ emitted = <<[type |-> "content_chunk", message_id |-> messageId,
                       content |-> "Hel"],
                      [type |-> "content_chunk", message_id |-> messageId,
                       content |-> "lo"]>>

\* C3: tool-call reconstruction with per-call recovery.  The call never
\* fails on tool frames; the message returned holds one tool call per stream
\* index named by a tool frame; a call whose index had a tool_use block start
\* carries the id and name of that start and, as args, the JSON parse of the
\* fragments that followed it, concatenated in arrival order, or the empty
\* object when that text is not valid JSON.
C3_ToolCallReconstruction ==
    /\ gen /= "failed"
    /\ gen = "returned" =>
          LET calls == result.tool_calls
              indices == ToolIndices(frames)
          IN  /\ Len(calls) = Cardinality(indices)
              /\ \A i \in indices :
                    LET k == LastStart(frames, i)
                        call == calls[Rank(indices, i)]
                    IN  k > 0 =>
                          /\ call.id = PayloadOf(frames[k]).content_block.id
                          /\ call.name = PayloadOf(frames[k]).content_block.name
                          /\ call.args = ParsedOrEmpty(FragmentsAfter(frames, i, k))

\* C3 witness: a call rebuilt from two fragments beside a call whose
\* argument text is not valid JSON.
C3_GoodCallBesideMalformedCall ==
    /\ gen = "returned"
    /\ Len(result.tool_calls) = 2
    /\ result.tool_calls[1] =
          [name |-> "x__y", args |-> [kind |-> "object", json |-> "{\"a\":1}"],
           id |-> "t0"]
    /\ toolCallsMap[1].input = CloseBrace
    /\ result.tool_calls[2].args = EmptyArgs

\* C4: the tool calls of the message returned are in strictly ascending
\* stream-index order: the k-th call is the one of the k-th smallest index.
C4_ToolCallsAscendingByIndex ==
    gen = "returned" =>
       /\ Len(result.tool_calls) = Cardinality(DOMAIN toolCallsMap)
       /\ \A i \in DOMAIN toolCallsMap :
             LET call == result.tool_calls[Rank(DOMAIN toolCallsMap, i)]
             IN  /\ call.id = toolCallsMap[i].id
                 /\ call.name = toolCallsMap[i].name
                 /\ call.args = parseToolArgs(toolCallsMap[i].input)

\* C4 witness: index 1 started before index 0, and index 0 comes first.
C4_HigherIndexStartedFirst ==
    /\ gen = "returned"
    /\ Len(frames) >= 2
    /\ IsToolStart(frames[1], 1)
    /\ \E k \in 2..Len(frames) : IsToolStart(frames[k], 0)
    /\ Len(result.tool_calls) = 2
    /\ result.tool_calls[1].id = "t0"
    /\ result.tool_calls[2].id = "t1"

\* the position, among the complete frames delivered, of the first error
\* frame that reaches the classification; 0 if none
FirstEffectiveError ==
    LET chunks == CompleteChunks(Delivered)
        ks == {k \in 1..Len(chunks) :
                  IsAccepted(chunks[k]) /\ EventNameOf(chunks[k]) = <<"error">>}
    IN  IF ks = {} THEN 0 ELSE CHOOSE k \in ks : \A j \in ks : k <= j

\* the number of complete frames before position k that reach the
\* classification
AcceptedBefore(k) ==
    LET chunks == CompleteChunks(Delivered)
    IN  Cardinality({j \in 1..(k - 1) : IsAccepted(chunks[j])})

\* C5 (as claimed): once a complete frame whose event name is error has been
\* delivered, whatever its data, the call has failed and returns no message.
C5_AnyErrorFrameAborts ==
    (\E k \in 1..Len(CompleteChunks(Delivered)) :
        EventNameOf(CompleteChunks(Delivered)[k]) = <<"error">>)
    => gen = "failed" /\ result = NoMessage

\* C5 (amended): once a complete error frame has been delivered whose data
\* is present, is not "[DONE]" and parses as a JSON value that is not
\* falsy, the call has failed with no message returned; the error frame is
\* the last frame handed to the accumulator and the notifications are those
\* of the frames before it.  Without such a frame the call does not fail.
C5_EffectiveErrorFrameAborts ==
    LET k == FirstEffectiveError
    IN  IF k > 0
        THEN /\ gen = "failed"
             /\ result = NoMessage
             /\ Len(frames) = AcceptedBefore(k) + 1
             /\ frames[Len(frames)].event = <<"error">>
             /\ emitted = NotificationsOf(SubSeq(frames, 1, Len(frames) - 1),
                                          messageId)
        ELSE gen /= "failed"

\* C5 witness: the call failed after a notification went out, and a complete
\* frame that followed the error frame lies unread in the buffer.
C5_FailedWithFramesLeft ==
    /\ gen = "failed"
    /\ failure = "boom"
    /\ emitted /= <<>>
    /\ IndexOfBoundary(buffer) /= -1

-----------------------------------------------------------------------------
(* Claims about the graph.  batch, dispatched, gateLog and lastReturn tell  *)
(* what the act phase of the current turn did, over all its runs.           *)

\* the history the act step ran on
ActHistory == SubSeq(messages, 1, Len(messages) - Len(lastReturn))

\* the act step of the current turn has returned
ActReturned == node \in {"chat", "failed"} /\ batch /= <<>>

HasToolCalls(message) == message.kind = "ai" /\ Len(message.tool_calls) >= 1

Positions == 1..Len(batch)
Dispatches(p) == {k \in 1..Len(dispatched) : dispatched[k].pos = p}
Gates(p) == {k \in 1..Len(gateLog) : gateLog[k].pos = p}
\* the interrupt() calls of position p that gave a resume value
Decided(p) == {k \in Gates(p) : ~gateLog[k].suspended}
ResultsFor(msgs, p) == {k \in 1..Len(msgs) : msgs[k].tool_call_id = batch[p].id}

\* the call already had a result when the act step started
WasReplayed(p) == batch[p].id \in toolMessageIds(ActHistory)

\* C6: after the generate step control goes to the act step if and only if
\* the last message of the history is an assistant message with at least
\* one tool call, and to the end otherwise (a failed model call ends the
\* run with the failure); when the act step returns, control goes to the
\* generate step.
C6_Routing ==
    [][/\ (node = "chat" /\ node' \notin {"chat", "failed"}) =>
             /\ node' \in {"tools", "end"}
             /\ (node' = "tools") <=> HasToolCalls(Last(messages'))
       /\ (node = "tools" /\ node' \notin {"tools", "interrupted"}) =>
             node' = "chat"]_vars

\* C6 witness: generate routed to act, act returned to generate, and the
\* second reply, without tool calls, ended the loop.
C6_ActThenEnd ==
    /\ node = "end"
    /\ modelCalls = 2
    /\ ~HasToolCalls(Last(messages))
    /\ \E k \in 1..Len(messages) : messages[k].kind = "tool"

\* C7: a call of the batch whose id already has a tool-result in the history
\* the act step runs on is neither dispatched nor gated and gets no new
\* tool-result; when the act step returns without a rejection, every other
\* call of the batch has its tool-result.
C7_ReplayGuard ==
    /\ \A p \in Positions :
          WasReplayed(p) =>
             /\ Dispatches(p) = {}
             /\ Gates(p) = {}
             /\ ResultsFor(toolMessages, p) = {}
             /\ ResultsFor(lastReturn, p) = {}
    /\ (ActReturned /\ \A k \in 1..Len(lastReturn) : ~lastReturn[k].hitl_rejected) =>
          \A p \in Positions :
             ~WasReplayed(p) => Cardinality(ResultsFor(lastReturn, p)) = 1

\* C7 witness: the act step returned for a batch of which one call had a
\* result in the history and the other was dispatched.
C7_OneReplayedOneDispatched ==
    /\ ActReturned
    /\ Len(batch) = 2
    /\ WasReplayed(1)
    /\ ~WasReplayed(2)
    /\ Dispatches(2) /= {}
    /\ Len(lastReturn) = 1

\* the decision reject was applied to position p
RejectedAt(p) ==
    \E k \in Decided(p) :
       /\ getDecision(gateLog[k].resume).defined
       /\ getDecision(gateLog[k].resume).type = "reject"

\* C8: when the decision reject is applied to a suspended sensitive call,
\* that call is never dispatched, the act step returns with exactly one
\* tool-result for it, which holds the marker "[HITL_REJECTED]" and has the
\* error flag set, and no later call of the batch is dispatched, gated or
\* given a tool-result.
C8_RejectStopsTheBatch ==
    \A p \in Positions :
       RejectedAt(p) =>
          /\ Dispatches(p) = {}
          /\ ActReturned
          /\ Cardinality(ResultsFor(lastReturn, p)) = 1
          /\ \A k \in ResultsFor(lastReturn, p) :
                /\ IncludesMarker(lastReturn[k].content)
                /\ lastReturn[k].error
                /\ k = Len(lastReturn)
          /\ \A q \in Positions :
                q > p => /\ Dispatches(q) = {}
                         /\ Gates(q) = {}
                         /\ ResultsFor(lastReturn, q) = {}

\* C8 witness: the first call of a batch of two was rejected and the act
\* step returned its one tool-result, the second call being abandoned.
C8_RejectedWithLaterCallAbandoned ==
    /\ ActReturned
    /\ Len(batch) = 2
    /\ RejectedAt(1)
    /\ ~WasReplayed(2)
    /\ Len(lastReturn) = 1

\* the decisions the claims call well-formed
IsApprove(decision) == decision.defined /\ decision.type = "approve"
IsEdit(decision) ==
    decision.defined /\ decision.type = "edit" /\ decision.edited_args /= NoArgs

\* C9: a sensitive call that got the decision approve is dispatched with
\* its own name and its own args; one that got the decision edit is
\* dispatched with its own name and with edited_action.args, never with
\* edited_action.name and never with its own args.
C9_ApproveAndEdit ==
    \A p \in Positions :
       \A k \in Decided(p) :
          LET decision == getDecision(gateLog[k].resume)
          IN  /\ IsApprove(decision) =>
                    /\ Dispatches(p) /= {}
                    /\ \A d \in Dispatches(p) :
                          /\ dispatched[d].name = batch[p].name
                          /\ dispatched[d].args = batch[p].args
              /\ IsEdit(decision) =>
                    /\ Dispatches(p) /= {}
                    /\ \A d \in Dispatches(p) :
                          /\ dispatched[d].name = batch[p].name
                          /\ dispatched[d].name /= decision.edited_name
                          /\ dispatched[d].args = decision.edited_args
                          /\ dispatched[d].args /= batch[p].args

\* C9 witness: one sensitive call dispatched with edited args and another
\* with its own args after an approve.
C9_EditedAndApprovedDispatch ==
    /\ Len(batch) = 2
    /\ \E d \in Dispatches(1) : dispatched[d].args = EditedArgs
    /\ \E k \in Decided(2) : IsApprove(getDecision(gateLog[k].resume))
    /\ \E d \in Dispatches(2) : dispatched[d].args = OriginalArgs

\* C10 (as claimed): a sensitive call is dispatched only after a well-formed
\* approve or edit decision; every other resume value is treated as reject.
C10_MalformedDecisionIsReject ==
    \A p \in Positions :
       (isDeleteWindowTool(batch[p].name) /\ Dispatches(p) /= {}) =>
          \A k \in Decided(p) :
             \/ IsApprove(getDecision(gateLog[k].resume))
             \/ IsEdit(getDecision(gateLog[k].resume))

\* the last message of the history is a tool-result that carries the marker
EndsWithRejection ==
    Last(messages).kind = "tool" /\ IncludesMarker(Last(messages).content)

\* C11: reject short-circuit.  When the generate step runs on a history whose
\* last entry is a tool-result carrying the reject marker, the model provider
\* is not called, the fixed assistant message without tool calls is appended
\* and the loop ends; the run stays at its end, so no model call and no tool
\* dispatch follows; and such a history always leads to the end of the run.
C11_RejectShortCircuit ==
    /\ [][/\ (node = "chat" /\ EndsWithRejection) =>
                /\ modelCalls' = modelCalls
                /\ messages' = Append(messages, RejectionNotice)
                /\ Last(messages').tool_calls = <<>>
                /\ dispatched' = <<>>
                /\ node' = "end"
          /\ node = "end" => node' = "end"]_vars
    /\ (node = "chat" /\ EndsWithRejection) ~> (node = "end")

\* C11 witness: the run ended on the fixed message right after a rejection
\* result, with the one model call that proposed the deletion.
C11_EndedAfterRejection ==
    /\ node = "end"
    /\ Last(messages) = RejectionNotice
    /\ Len(messages) >= 3
    /\ messages[Len(messages) - 1].hitl_rejected
    /\ modelCalls = 1

\* the run of tools() the act phase is in, or that returned: one run per
\* suspension before it
RunNumber == Cardinality({k \in 1..Len(gateLog) : gateLog[k].suspended})

\* the dispatches of that run that threw an Error
FailedDispatches ==
    {d \in 1..Len(dispatched) : ~dispatched[d].ok /\ dispatched[d].run = RunNumber}

\* the tool-result the claim gives a dispatch that threw
ErrorResultOf(entry) ==
    ToolMessage("Error executing tool: " \o entry.message,
                entry.id, batch[entry.pos].name, TRUE, FALSE)

\* the positions the returned messages hold a rejection for
RejectedPositions ==
    {p \in Positions : \E k \in ResultsFor(lastReturn, p) : lastReturn[k].hitl_rejected}

\* C12: dispatch-failure isolation.  A dispatch that throws an Error with
\* message m gives its call the one tool-result "Error executing tool: " + m
\* with the error flag set; the act step does not fail, its loop goes on to
\* the next call, and when it returns every later call that had no result
\* before and was not cut off by a rejection has its tool-result.
C12_DispatchFailureIsolated ==
    /\ [](\A d \in FailedDispatches :
            LET p == dispatched[d].pos
            IN  /\ node = "tools" =>
                      /\ ti > p
                      /\ Cardinality(ResultsFor(toolMessages, p)) = 1
                      /\ \A k \in ResultsFor(toolMessages, p) :
                            toolMessages[k] = ErrorResultOf(dispatched[d])
                /\ ActReturned =>
                      /\ Cardinality(ResultsFor(lastReturn, p)) = 1
                      /\ \A k \in ResultsFor(lastReturn, p) :
                            lastReturn[k] = ErrorResultOf(dispatched[d])
                      /\ \A q \in Positions :
                            (/\ q > p
                             /\ ~WasReplayed(q)
                             /\ \A r \in RejectedPositions : q <= r)
                            => Cardinality(ResultsFor(lastReturn, q)) = 1)
    /\ [][(/\ node = "tools"
            /\ Len(dispatched') = Len(dispatched) + 1
            /\ ~Last(dispatched').ok)
           => /\ node' = "tools"
              /\ ti' = ti + 1
              /\ toolMessages' =
                    Append(toolMessages, ErrorResultOf(Last(dispatched')))]_vars

\* C12 witness: the first call of a batch of two threw, the second was
\* dispatched after it and gave its output, and the act step returned both
\* tool-results.
C12_FailureThenLaterCallDone ==
    /\ ActReturned
    /\ node = "chat"
    /\ Len(batch) = 2
    /\ \E d \in FailedDispatches : dispatched[d].pos = 1
    /\ \E d \in 1..Len(dispatched) :
          dispatched[d].pos = 2 /\ dispatched[d].ok /\ dispatched[d].run = RunNumber
    /\ Len(lastReturn) = 2
    /\ lastReturn[1].error
    /\ lastReturn[1].content = "Error executing tool: timeout"
    /\ ~lastReturn[2].error

\* the interrupt() calls that surfaced a request and have had no resume yet
PendingSuspensions == RunNumber - Len(resumes)

\* C13: at most one approval suspension is pending at any time.  While the
\* act step is running or suspended, at most one interrupt() call is waiting
\* for its decision; a request is pending exactly when the run is suspended,
\* it asks about one call, the one the loop stopped at, and no call after
\* that one has been dispatched or gated.
C13_OneSuspensionAtATime ==
    /\ request.pending <=> node = "interrupted"
    /\ node = "tools" => PendingSuspensions = 0
    /\ node = "interrupted" =>
          /\ PendingSuspensions = 1
          /\ Len(request.action_requests) = 1
          /\ Last(gateLog).suspended
          /\ LET p == Last(gateLog).pos
             IN  /\ request.action_requests[1] =
                       [name |-> batch[p].name, args |-> batch[p].args]
                 /\ isDeleteWindowTool(batch[p].name)
                 /\ \A q \in Positions :
                       q > p => Dispatches(q) = {} /\ Gates(q) = {}

\* C13 witness: a batch of two sensitive calls; the first was approved and
\* dispatched, and the run is now suspended on the second.
C13_SuspendedOnSecondSensitiveCall ==
    /\ node = "interrupted"
    /\ Len(batch) = 2
    /\ isDeleteWindowTool(batch[1].name)
    /\ isDeleteWindowTool(batch[2].name)
    /\ Decided(1) /= {}
    /\ Dispatches(1) /= {}
    /\ Last(gateLog).pos = 2
    /\ request.pending

\* the string a is the beginning of the string b
IsPrefix(a, b) == Len(a) <= Len(b) /\ SubSeq(b, 1, Len(a)) = a

\* C14 (as claimed): the accumulator invariant.  Over every read of a
\* provider call, a stream index that has a record keeps it, an id or a name
\* that was set stays what it is, and the argument buffer after the read
\* begins with the argument buffer before it; a tool_use block start for an
\* index that already has a record included.
C14_IdNameOnceBufferAppendOnly ==
    [][\A i \in DOMAIN toolCallsMap :
          /\ i \in DOMAIN toolCallsMap'
          /\ toolCallsMap[i].id /= "" => toolCallsMap'[i].id = toolCallsMap[i].id
          /\ toolCallsMap[i].name /= "" => toolCallsMap'[i].name = toolCallsMap[i].name
          /\ IsPrefix(toolCallsMap[i].input, toolCallsMap'[i].input)]_vars

-----------------------------------------------------------------------------
(* Claims about the notifications of a provider call *)

RECURSIVE ContentsOf(_, _)
\* the contents of the notifications of one type, concatenated in emission
\* order
ContentsOf(notes, type) ==
    IF notes = <<>> THEN ""
    ELSE (IF Head(notes).type = type THEN Head(notes).content ELSE "")
            \o ContentsOf(Tail(notes), type)

\* the fragment a frame appends to the text buffer, "" if none
TextFragmentOf(frame) ==
    IF frame.event = <<"content_block_start">>
          /\ PayloadOf(frame).content_block.type = "text"
    THEN PayloadOf(frame).content_block.text
    ELSE IF frame.event = <<"content_block_delta">>
               /\ PayloadOf(frame).delta.type = "text_delta"
    THEN PayloadOf(frame).delta.text
    ELSE ""

\* the fragment a frame appends to the reasoning buffer, "" if none
ReasoningFragmentOf(frame) ==
    IF frame.event = <<"content_block_start">>
          /\ PayloadOf(frame).content_block.type \in {"thinking", "redacted_thinking"}
    THEN Or(PayloadOf(frame).content_block.thinking, PayloadOf(frame).content_block.text)
    ELSE IF frame.event = <<"content_block_delta">>
               /\ PayloadOf(frame).delta.type
                     \in {"thinking_delta", "redacted_thinking_delta"}
    THEN Or(PayloadOf(frame).delta.thinking, PayloadOf(frame).delta.text)
    ELSE ""

RECURSIVE OneNotificationPerFragment(_, _)
\* one notification for each frame that appends a fragment, in frame order
OneNotificationPerFragment(fs, mid) ==
    IF fs = <<>> THEN <<>>
    ELSE LET f == Head(fs)
             rest == OneNotificationPerFragment(Tail(fs), mid)
         IN  IF TextFragmentOf(f) /= ""
             THEN <<[type |-> "content_chunk", message_id |-> mid,
                     content |-> TextFragmentOf(f)]>> \o rest
             ELSE IF ReasoningFragmentOf(f) /= ""
             THEN <<[type |-> "reasoning_chunk", message_id |-> mid,
                     content |-> ReasoningFragmentOf(f)]>> \o rest
             ELSE rest

\* C15: notifications mirror the buffers.  With a subscriber present, after
\* every processed frame the contents of the content_chunk notifications,
\* concatenated in emission order, are the running text buffer, those of the
\* reasoning_chunk notifications are the running reasoning buffer, and the
\* notifications are one per appended fragment, in the order of the frames.
C15_NotificationsMirrorBuffers ==
    writer =>
       /\ ContentsOf(emitted, "content_chunk") = textContent
       /\ ContentsOf(emitted, "reasoning_chunk") = reasoningContent
       /\ emitted = OneNotificationPerFragment(frames, messageId)

\* C15 witness: a text fragment and a reasoning fragment were appended and
\* notified, and the call has not returned yet.
C15_TextAndReasoningNotified ==
    /\ writer
    /\ gen = "reading"
    /\ Len(emitted) = 2
    /\ textContent /= ""
    /\ reasoningContent /= ""

\* C16 (as claimed): the args of every tool call of the message returned is
\* a JSON object, and it is the empty object whenever the argument buffer
\* does not hold the text of a JSON object, text that is valid JSON of
\* another kind included.
C16_ArgsAlwaysAnObject ==
    gen = "returned" =>
       \A i \in DOMAIN toolCallsMap :
          LET call == result.tool_calls[Rank(DOMAIN toolCallsMap, i)]
          IN  /\ call.args.kind = "object"
              /\ toolCallsMap[i].input \notin {"{\"a\":1}", "{}"} =>
                    call.args = EmptyArgs

-----------------------------------------------------------------------------
(* Claims about the frames that are dropped *)

\* the data of a chunk: its data: lines, trimmed and joined
DataOf(chunk) == JoinLines(ScanLines(SplitLines(chunk), <<"message">>, <<>>).dataLines)

\* the frame has no data line, or its payload is "[DONE]", or its payload is
\* not the text of a JSON value
IsDroppedChunk(chunk) ==
    \/ DataOf(chunk) = <<>>
    \/ DataOf(chunk) = <<"[DONE]">>
    \/ ~(Len(DataOf(chunk)) = 1 /\ DataOf(chunk)[1] \in PayloadAtoms \cup FalsyJsonAtoms)

RECURSIVE Unterminated(_)
\* the text after its last blank-line terminator
Unterminated(s) ==
    LET b == IndexOfBoundary(s)
    IN  IF b = -1 THEN s ELSE Unterminated(SubSeq(s, b + 3, Len(s)))

RECURSIVE KeptFrames(_)
\* the chunks that are not dropped, each with its terminator, in order
KeptFrames(chunks) ==
    IF chunks = <<>> THEN <<>>
    ELSE (IF IsDroppedChunk(Head(chunks)) THEN <<>> ELSE Head(chunks) \o <<NL, NL>>)
            \o KeptFrames(Tail(chunks))

\* the same stream with the dropped frames removed
WithoutDropped(s) == KeptFrames(CompleteChunks(s)) \o Unterminated(s)

\* C17: dropped frames are harmless.  A frame with no data line, with the
\* payload "[DONE]" or with a payload that is not valid JSON changes no
\* accumulator, gives no notification and does not fail the call: at every
\* point the accumulators, the notifications and the outcome, and at the end
\* the message returned, are those of the same stream with such frames taken
\* out, so the frames after a dropped frame are processed as if it was not
\* there.
C17_DroppedFramesHarmless ==
    LET clean == Drain(InitAcc, WithoutDropped(Delivered), writer, messageId)
    IN  /\ textContent = clean.acc.textContent
        /\ reasoningContent = clean.acc.reasoningContent
        /\ toolCallsMap = clean.acc.toolCallsMap
        /\ emitted = clean.acc.emitted
        /\ failure = clean.acc.failure
        /\ (gen = "failed") = (clean.acc.gen = "failed")
        /\ gen = "returned" => result = AssembleMessage(clean.acc, messageId)

\* C17 witness: the stream began with a "[DONE]" frame, a frame that is no
\* JSON was dropped as well, and the text delta that came after them is in
\* the message returned.
C17_DeltaAfterDoneProcessed ==
    /\ gen = "returned"
    /\ Len(CompleteChunks(text)) = 3
    /\ DataOf(CompleteChunks(text)[1]) = <<"[DONE]">>
    /\ DataOf(CompleteChunks(text)[2]) = <<"upstream timeout">>
    /\ result.content = "Hel"
    /\ Len(emitted) = 1

\* the text up to and including its last blank-line terminator
Terminated(s) == SubSeq(s, 1, Len(s) - Len(Unterminated(s)))

\* C18: a trailing partial frame is never emitted.  Text that no blank line
\* follows gives nothing to the text buffer, the reasoning buffer, the
\* tool-call map or the notifications and cannot fail the call, a complete
\* error frame included: at every point the accumulators are those of the
\* terminated frames delivered, and when the stream ends the message is the
\* one assembled from the terminated frames, the rest lying unused in the
\* buffer.
C18_TrailingPartialFrameDiscarded ==
    LET closed == Drain(InitAcc, Terminated(Delivered), writer, messageId)
    IN  /\ textContent = closed.acc.textContent
        /\ reasoningContent = closed.acc.reasoningContent
        /\ toolCallsMap = closed.acc.toolCallsMap
        /\ emitted = closed.acc.emitted
        /\ frames = closed.acc.frames
        /\ (gen = "failed") = (closed.acc.gen = "failed")
        /\ gen = "returned" =>
              /\ buffer = Unterminated(text)
              /\ result = AssembleMessage(closed.acc, messageId)

\* C18 witness: the stream ended on an error frame that had all its lines
\* but no blank line; the message returned holds the text of the frame
\* before it.
C18_UnterminatedErrorFrameIgnored ==
    /\ gen = "returned"
    /\ buffer = <<"event:", "error", NL, "data:", "J_error_boom", NL>>
    /\ result.content = "Hel"
    /\ Len(emitted) = 1

\* C19: message-id correlation.  The identifier of a provider call is fixed
\* before the first read and never changes; every content_chunk and
\* reasoning_chunk notification of the call carries it, and so does the
\* assistant message returned.
C19_OneMessageIdPerCall ==
    /\ [](/\ \A k \in 1..Len(emitted) :
               /\ emitted[k].type \in {"content_chunk", "reasoning_chunk"}
               /\ emitted[k].message_id = messageId
           /\ gen = "returned" => result.id = messageId)
    /\ [][messageId' = messageId]_vars

\* C19 witness: a call that sent a text and a reasoning notification returned
\* its message, all three under the identifier "msg_2".
C19_ChunksAndMessageShareId ==
    /\ gen = "returned"
    /\ messageId = "msg_2"
    /\ result.id = "msg_2"
    /\ \E k \in 1..Len(emitted) :
          emitted[k].type = "content_chunk" /\ emitted[k].message_id = "msg_2"
    /\ \E k \in 1..Len(emitted) :
          emitted[k].type = "reasoning_chunk" /\ emitted[k].message_id = "msg_2"

\* C20: subscriber independence.  A provider call with a subscriber and one
\* without give the same outcome on the same stream: at every point the text
\* buffer, the reasoning buffer, the tool-call map, the frames handled and
\* the failure of this call are those of the call with the other setting of
\* the writer on the text delivered so far, and so is the message returned;
\* only the notifications differ, none being emitted without a subscriber.
C20_SubscriberIndependence ==
    LET other == Drain(InitAcc, Delivered, ~writer, messageId)
    IN  /\ textContent = other.acc.textContent
        /\ reasoningContent = other.acc.reasoningContent
        /\ toolCallsMap = other.acc.toolCallsMap
        /\ frames = other.acc.frames
        /\ failure = other.acc.failure
        /\ (gen = "failed") = (other.acc.gen = "failed")
        /\ gen = "returned" => result = AssembleMessage(other.acc, messageId)
        /\ ~writer => emitted = <<>>
        /\ writer => other.acc.emitted = <<>>

\* C20 witness: a call without a subscriber returned a message with text and
\* a reasoning annotation, the call with a subscriber sending two
\* notifications on the same stream.
C20_NoSubscriberSameMessage ==
    /\ ~writer
    /\ gen = "returned"
    /\ result.content /= ""
    /\ result.reasoning_content /= ""
    /\ emitted = <<>>
    /\ Len(Drain(InitAcc, text, TRUE, messageId).acc.emitted) = 2

-----------------------------------------------------------------------------
(* Claims about the act step across suspensions and turns *)

\* a suspension signal was raised in this step: by interrupt() at the gate,
\* or by the tool being dispatched
RaisedAtGate ==
    Len(gateLog') = Len(gateLog) + 1 /\ Last(gateLog').suspended

RaisedInDispatch ==
    Len(dispatched') = Len(dispatched) + 1 /\ Last(dispatched').interrupt

Unanswered == Ascending({p \in Positions : ~WasReplayed(p)})

\* C22: when the act step returns and no call of the batch was rejected, it
\* returns exactly one tool-result for each call of the last assistant
\* message that had no result in the history, in the order of the calls,
\* each with the id and the name of its call, whether its dispatch gave an
\* output or threw.
C22_OneResultPerCallInOrder ==
    (ActReturned /\ RejectedPositions = {}) =>
       /\ Len(lastReturn) = Len(Unanswered)
       /\ \A k \in 1..Len(lastReturn) :
             /\ lastReturn[k].kind = "tool"
             /\ lastReturn[k].tool_call_id = batch[Unanswered[k]].id
             /\ lastReturn[k].name = batch[Unanswered[k]].name
             /\ lastReturn[k].error <=>
                   \E d \in FailedDispatches : dispatched[d].pos = Unanswered[k]

\* C22 witness: a batch of two unanswered calls returned its two results in
\* call order, the first from a dispatch that gave an output and the second
\* from one that threw.
C22_TwoResultsInCallOrder ==
    /\ ActReturned
    /\ node = "chat"
    /\ Len(batch) = 2
    /\ Len(Unanswered) = 2
    /\ Len(lastReturn) = 2
    /\ lastReturn[1].tool_call_id = batch[1].id
    /\ ~lastReturn[1].error
    /\ lastReturn[2].tool_call_id = batch[2].id
    /\ lastReturn[2].error
    /\ ~lastReturn[2].hitl_rejected

-----------------------------------------------------------------------------
(* Claims about the names that are gated *)

\* the lower-cased name names a window or a browser and a deletion
NamesWindowDeletion(name) ==
    /\ NameFacts(name).browser \/ NameFacts(name).window
    /\ NameFacts(name).delete \/ NameFacts(name).remove

\* C23: isDeleteWindowTool(name) is true exactly for the names whose
\* lower-cased form contains "browser" or "window" and contains "delete" or
\* "remove", and every call with such a name is dispatched only after the
\* approval gate decided on it
C23_WindowDeletionsAreGated ==
    \A p \in Positions :
        /\ isDeleteWindowTool(batch[p].name) <=> NamesWindowDeletion(batch[p].name)
        /\ NamesWindowDeletion(batch[p].name) =>
              \A d \in Dispatches(p) :
                  \E g \in Decided(p) : gateLog[g].resume \in
                      {resumes[r] : r \in 1..Len(resumes)}

-----------------------------------------------------------------------------
(* Claims about what a resume repeats *)

\* C24: over the act runs of one batch, suspensions and resumes included,
\* every tool call of the batch is dispatched at most once
C24_DispatchedAtMostOnce ==
    \A p \in Positions : Cardinality(Dispatches(p)) <= 1

-----------------------------------------------------------------------------
(* Claims about the history the model is called on *)

\* every tool call of every assistant message of msgs has a tool-result
\* with its id later in msgs
EveryCallAnswered(msgs) ==
    \A k \in 1..Len(msgs) :
        msgs[k].kind = "ai" =>
            \A c \in 1..Len(msgs[k].tool_calls) :
                \E j \in (k + 1)..Len(msgs) :
                    /\ msgs[j].kind = "tool"
                    /\ msgs[j].tool_call_id = msgs[k].tool_calls[c].id

\* C25: whenever the generate step calls the model provider, every tool
\* call of every assistant message of the history it sends has a tool-result
\* with the same id later in the history
C25_ModelCalledOnAnsweredHistory ==
    [][modelCalls' /= modelCalls => EveryCallAnswered(messages)]_vars

\* the last entry of the history is the result of a dispatched tool, the
\* last message the act step returned and not one the gate made
EndsWithDispatchResult ==
    /\ lastReturn /= <<>>
    /\ Last(messages) = Last(lastReturn)
    /\ ~Last(lastReturn).hitl_rejected
    /\ \E d \in 1..Len(dispatched) : dispatched[d].id = Last(lastReturn).tool_call_id

\* C26: the generate step on a history that ends with the result of a
\* dispatched tool calls the model, whatever the text of the result; it
\* appends the fixed message instead only when the last entry is the
\* tool-result the gate made for a rejected call
C26_ShortCircuitOnlyAfterRejection ==
    [][node = "chat" =>
          /\ EndsWithDispatchResult => modelCalls' = modelCalls + 1
          /\ (node' = "end" /\ messages' = Append(messages, RejectionNotice)) =>
                /\ Last(messages).kind = "tool"
                /\ Last(messages).hitl_rejected]_vars

-----------------------------------------------------------------------------
(* Claims about the tool-server clients *)

\* the entries of mcpClients for one server
ClientsOf(s) == {k \in 1..Len(mcpClients) : mcpClients[k] = s}

\* C27: whatever the interleaving of getMCPTools and initializeMCPClient
\* calls, every configured server is connected at most once and mcpClients
\* holds at most one client per server name; a call made once isInitialized
\* is set connects nothing
C27_ClientsInitializedOnce ==
    /\ [](\A s \in ServerNames : connects[s] <= 1 /\ Cardinality(ClientsOf(s)) <= 1)
    /\ [][isInitialized => connects' = connects]_vars

====
